---- MODULE Spec2Model ----
(***************************************************************************)
(* Model of xenomorph/geometry.py: the dust-plume ring generator           *)
(* (dust_circle), the plume assembler (dust_plume, dust_plume_sub), and    *)
(* the image compositor (smooth_histogram2d_base, add_stars), and the      *)
(* model loop of HMC_Testing/Apep_HMC.py (apep_model).                     *)
(*                                                                         *)
(* Numbers.  The program computes in IEEE doubles; the model computes in   *)
(* fixed point: a real value v is the integer round(v * FixOne).  Angles   *)
(* in radians are therefore held in milliradians, angles in degrees in     *)
(* millidegrees, weights and image intensities in thousandths.  Every      *)
(* library primitive of the program (sin, cos, arccos, arctan2, sqrt, exp) *)
(* is an operator computing the fixed-point value of that primitive.       *)
(* NaN, which the program produces on 0/0 and on arccos outside [-1,1],    *)
(* is the distinguished value NaN and propagates the way IEEE NaN does.    *)
(***************************************************************************)
EXTENDS Integers, Naturals, Sequences, FiniteSets, TLC

-----------------------------------------------------------------------------
(* Fixed-point arithmetic                                                  *)

\* scale of the fixed-point representation of a double
FixOne == 1000

\* the value the program's arithmetic yields for 0/0 or arccos(|c| > 1)
NaN == -2000000000

IsNaN(a) == a = NaN

Abs(a) == IF a < 0 THEN -a ELSE a

Sign(a) == IF a > 0 THEN 1 ELSE IF a < 0 THEN -1 ELSE 0

Min2(a, b) == IF a < b THEN a ELSE b

Max2(a, b) == IF a > b THEN a ELSE b

\* n / d for integers, d > 0, rounded to nearest (ties away from zero)
RDiv(n, d) == IF n >= 0 THEN (n + d \div 2) \div d
                        ELSE -(((-n) + d \div 2) \div d)

\* a * b of two fixed-point values
Mul(a, b) == RDiv(a * b, FixOne)

\* a / b of two fixed-point values, b # 0
Div(a, b) == IF b > 0 THEN RDiv(a * FixOne, b) ELSE RDiv((-a) * FixOne, -b)

\* floor(sqrt(n)) of a natural number, by bisection on [lo, hi)
RECURSIVE ISqrtBetween(_, _, _)
ISqrtBetween(n, lo, hi) ==
    IF hi - lo <= 1 THEN lo
    ELSE LET mid == (lo + hi) \div 2
         IN IF mid * mid <= n THEN ISqrtBetween(n, mid, hi)
                              ELSE ISqrtBetween(n, lo, mid)

ISqrt(n) == ISqrtBetween(n, 0, Min2(n + 1, 46341))

\* jnp.sqrt of a fixed-point value 0 <= a
Sqrt(a) == ISqrt(a * FixOne)

\* jnp.pi
Pi == 3142

TwoPi == 2 * Pi

HalfPi == Pi \div 2

\* scale of the guard digit the series below carry past FixOne
Guard == 10

\* cos on [0, pi/2], by its Taylor series in Horner form
CosQ(x) ==
    LET g == Guard * FixOne
        x2 == RDiv((Guard * x) * (Guard * x), g)
        a == g - RDiv(x2, 90)
        b == g - RDiv(RDiv(x2 * a, g), 56)
        c == g - RDiv(RDiv(x2 * b, g), 30)
        d == g - RDiv(RDiv(x2 * c, g), 12)
    IN RDiv(g - RDiv(RDiv(x2 * d, g), 2), Guard)

\* sin on [0, pi/2], by its Taylor series in Horner form
SinQ(x) ==
    LET g == Guard * FixOne
        x2 == RDiv((Guard * x) * (Guard * x), g)
        a == g - RDiv(x2, 72)
        b == g - RDiv(RDiv(x2 * a, g), 42)
        c == g - RDiv(RDiv(x2 * b, g), 20)
        d == g - RDiv(RDiv(x2 * c, g), 6)
    IN RDiv(RDiv((Guard * x) * d, g), Guard)

\* cos of an angle in [0, 2 pi)
CosWrapped(y) ==
    IF y <= HalfPi THEN CosQ(y)
    ELSE IF y <= Pi THEN -CosQ(Pi - y)
    ELSE IF y <= Pi + HalfPi THEN -CosQ(y - Pi)
    ELSE CosQ(TwoPi - y)

\* sin of an angle in [0, 2 pi)
SinWrapped(y) ==
    IF y <= HalfPi THEN SinQ(y)
    ELSE IF y <= Pi THEN SinQ(Pi - y)
    ELSE IF y <= Pi + HalfPi THEN -SinQ(y - Pi)
    ELSE -SinQ(TwoPi - y)

\* the values of cos and sin over one turn, computed once
CosTable == [y \in 0..(TwoPi - 1) |-> CosWrapped(y)]

SinTable == [y \in 0..(TwoPi - 1) |-> SinWrapped(y)]

\* jnp.cos of an angle in milliradians
Cos(x) == CosTable[x % TwoPi]

\* jnp.sin of an angle in milliradians
Sin(x) == SinTable[x % TwoPi]

\* the least angle in [lo, hi] whose cosine is <= c (cos decreases on [0, pi])
RECURSIVE ArcCosBetween(_, _, _)
ArcCosBetween(c, lo, hi) ==
    IF lo >= hi THEN lo
    ELSE LET mid == (lo + hi) \div 2
         IN IF Cos(mid) <= c THEN ArcCosBetween(c, lo, mid)
                             ELSE ArcCosBetween(c, mid + 1, hi)

\* arccos on [-1, 1]: the middle of the angles whose fixed-point cosine is c
ArcCosTable ==
    [c \in (-FixOne)..FixOne |->
        IF c = FixOne THEN 0
        ELSE IF c = -FixOne THEN Pi
        ELSE (ArcCosBetween(c, 0, Pi) + ArcCosBetween(c - 1, 0, Pi)) \div 2]

\* jnp.arccos: NaN outside [-1, 1] and for NaN
ArcCos(c) == IF IsNaN(c) \/ c > FixOne \/ c < -FixOne THEN NaN
             ELSE ArcCosTable[c]

\* jnp.arctan2(y, x) in (-pi, pi]; 0 at the origin
ArcTan2(y, x) ==
    LET k == Max2(Abs(x), Abs(y)) \div 30000 + 1
        xs == x \div k
        ys == y \div k
        signed(a) == IF ys < 0 THEN -a ELSE a
        angle(r) ==
            IF r = 0 THEN 0
            ELSE signed(ArcCos(Max2(-FixOne, Min2(FixOne, RDiv(xs * FixOne, r)))))
    IN angle(ISqrt(xs * xs + ys * ys))

\* exp(-k) for whole k, in thousandths
ExpNegWhole(k) ==
    IF k = 0 THEN 1000 ELSE IF k = 1 THEN 368 ELSE IF k = 2 THEN 135
    ELSE IF k = 3 THEN 50 ELSE IF k = 4 THEN 18 ELSE IF k = 5 THEN 7
    ELSE IF k = 6 THEN 2 ELSE 1

\* exp(-f) for 0 <= f < 1, by its Taylor series in Horner form
ExpNegFrac(f) ==
    LET a == FixOne - RDiv(f, 5)
        b == FixOne - RDiv(Mul(f, a), 4)
        c == FixOne - RDiv(Mul(f, b), 3)
        d == FixOne - RDiv(Mul(f, c), 2)
    IN FixOne - Mul(f, d)

\* exp(-q) for q >= 0, rounded to thousandths
ExpNegRound(q) ==
    IF q >= 8 * FixOne THEN 0
    ELSE Mul(ExpNegWhole(q \div FixOne), ExpNegFrac(q % FixOne))

\* the largest q for which a double exp(-q) is still positive
ExpUnderflow == 745

\* jnp.exp(-q) for q >= 0: positive (at least one thousandth) until the
\* double underflows to 0
ExpNeg(q) ==
    IF q > ExpUnderflow * FixOne THEN 0 ELSE Max2(1, ExpNegRound(q))

\* exp(-0.5 * (dx / sd)^2) for sd > 0 (dx and sd in the same unit)
Gauss(dx, sd) ==
    LET k == Max2(Abs(dx), sd) \div (2000 * FixOne) + 1
        dxs == Abs(dx) \div k
        sds == Max2(1, sd \div k)
        ratio == IF dxs >= 40 * sds THEN 40 * FixOne ELSE Div(dxs, sds)
    IN IF ratio >= 39 * FixOne THEN 0
       ELSE ExpNeg(RDiv(Mul(ratio, ratio), 2))

\* jnp.heaviside(x, h0)
Heaviside(x, h0) == IF x > 0 THEN FixOne ELSE IF x < 0 THEN 0 ELSE h0

\* jnp.deg2rad of an angle in millidegrees
deg2rad(d) == RDiv(d * Pi, 180 * FixOne)

\* the largest magnitude the fixed-point powers are carried to
Saturate == 2000 * FixOne

\* b ** n for a fixed-point b >= 0 and a whole n >= 0 (0 ** 0 = 1)
RECURSIVE PowWhole(_, _)
PowWhole(b, n) ==
    IF n = 0 THEN FixOne
    ELSE LET r == PowWhole(b, n - 1)
         IN IF r = 0 \/ b = 0 THEN 0
            ELSE IF r >= Saturate \div Max2(1, RDiv(b, FixOne)) THEN Saturate
            ELSE Min2(Saturate, Mul(r, b))

\* 10 ** e for a whole e (given in fixed point)
Pow10(e) ==
    LET k == e \div FixOne
    IN IF k >= 3 THEN Saturate
       ELSE IF k = 2 THEN 100 * FixOne
       ELSE IF k = 1 THEN 10 * FixOne
       ELSE IF k = 0 THEN FixOne
       ELSE IF k = -1 THEN FixOne \div 10
       ELSE IF k = -2 THEN FixOne \div 100
       ELSE IF k = -3 THEN FixOne \div 1000
       ELSE 0

\* jnp.tanh(y) for y >= 0
Tanh(y) ==
    IF y >= 4 * FixOne THEN FixOne
    ELSE LET e == ExpNegRound(2 * y)
         IN Div(FixOne - e, FixOne + e)

\* sqrt(x^2 + y^2 + z^2) of fixed-point coordinates
Norm3(x, y, z) ==
    LET m == Max2(Abs(x), Max2(Abs(y), Abs(z)))
        k == m \div 20000 + 1
        xs == RDiv(x, k)
        ys == RDiv(y, k)
        zs == RDiv(z, k)
    IN k * ISqrt(xs * xs + ys * ys + zs * zs)

\* a / b where the program may meet 0/0: NaN then, and NaN propagates
FDiv(a, b) == IF IsNaN(a) \/ IsNaN(b) \/ b = 0 THEN NaN ELSE Div(a, b)

\* rotate_z(angle) @ v for one coordinate triple v
rotate_z(angle, v) ==
    <<Mul(Cos(angle), v[1]) - Mul(Sin(angle), v[2]),
      Mul(Sin(angle), v[1]) + Mul(Cos(angle), v[2]),
      v[3]>>

\* rotate_x(angle) @ v for one coordinate triple v
rotate_x(angle, v) ==
    <<v[1],
      Mul(Cos(angle), v[2]) - Mul(Sin(angle), v[3]),
      Mul(Sin(angle), v[2]) + Mul(Cos(angle), v[3])>>

-----------------------------------------------------------------------------
(* Units.  Times are held in units of 1e5 s, lengths in units of 1e8 km    *)
(* and speeds in units of 1e3 km/s, so that speed * time is a length as in *)
(* the program.                                                            *)

\* km in an AU (1.496e8 km)
AU2km == 1496

\* seconds in a year (365.25 * 24 * 60 * 60 s)
yr2s == 315576

-----------------------------------------------------------------------------
(* dust_circle: one ring of particles and their weights                    *)

\* the wrapped true anomaly with the half turn kept at +pi
transf_nu_upper(nu) ==
    LET t == ((nu - Pi) % TwoPi) - Pi IN IF t = -Pi THEN Pi ELSE t

\* the wrapped true anomaly of a ring
transf_nu_of(nu) == ((nu - Pi) % TwoPi) - Pi

\* is the ring's true anomaly past the turn-on threshold
turned_on_of(nu, stardata) ==
    Heaviside(transf_nu_of(nu) - deg2rad(stardata.turn_on), 0)

\* the turn-off step with value 1 at the threshold
turned_off_closed(nu, stardata) ==
    Heaviside(deg2rad(stardata.turn_off) - transf_nu_of(nu), FixOne)

\* is the ring's true anomaly before the turn-off threshold
turned_off_of(nu, stardata) ==
    Heaviside(deg2rad(stardata.turn_off) - transf_nu_of(nu), 0)

\* is the ring wider than the nucleation distance
nucleated_of(width, stardata) ==
    Heaviside(width - Mul(stardata.nuc_dist, AU2km), FixOne)

\* the floor of the gradual-turn standard deviation (0.001 rad)
sigma_floor == 1

\* the Gaussian residual without its switch on the standard deviation
residual_unswitched(nu, stardata) ==
    LET transf_nu == transf_nu_of(nu)
        sigma == Max2(deg2rad(stardata.gradual_turn), sigma_floor)
        residual_on ==
            Mul(FixOne - turned_on_of(nu, stardata),
                Gauss(transf_nu - deg2rad(stardata.turn_on), sigma))
        residual_off ==
            Mul(FixOne - turned_off_of(nu, stardata),
                Gauss(transf_nu - deg2rad(stardata.turn_off), sigma))
    IN Min2(residual_on + residual_off, FixOne)

\* the Gaussian residual added to the hard on/off gate
residual_of(nu, stardata) ==
    LET transf_nu == transf_nu_of(nu)
        turn_on == deg2rad(stardata.turn_on)
        turn_off == deg2rad(stardata.turn_off)
        sigma == Max2(deg2rad(stardata.gradual_turn), sigma_floor)
        residual_on ==
            Mul(FixOne - turned_on_of(nu, stardata), Gauss(transf_nu - turn_on, sigma))
        residual_off ==
            Mul(FixOne - turned_off_of(nu, stardata), Gauss(transf_nu - turn_off, sigma))
        residual == FixOne - Heaviside(sigma - FixOne, FixOne)
    IN Mul(residual, Min2(residual_on + residual_off, FixOne))

\* the ring weight with the residual left out of the nucleation gate
gate_weight_residual_ungated(nu, width, stardata) ==
    Mul(Mul(turned_on_of(nu, stardata), turned_off_of(nu, stardata)),
        nucleated_of(width, stardata))
    + residual_of(nu, stardata)

\* the weight of a ring before the per-particle multipliers
gate_weight_of(nu, width, stardata) ==
    LET weights == Mul(Mul(turned_on_of(nu, stardata), turned_off_of(nu, stardata)),
                       nucleated_of(width, stardata))
    IN weights + Mul(residual_of(nu, stardata), nucleated_of(width, stardata))

\* the multipliers with the latitude taken from the direction vector
spin_orbit_mult_directed(true_anom, direction, stardata) ==
    LET dist == Abs(Mul(stardata.spin_inc, direction[2]))
        vel_mult ==
            FixOne + Mul(Div(stardata.windspeed_polar, stardata.windspeed1) - FixOne,
                         Tanh(Min2(Saturate,
                                   Mul(Pow10(stardata.aniso_vel_mult),
                                       PowWhole(dist, stardata.aniso_vel_power \div FixOne)))))
        open_angle_mult ==
            FixOne + Mul(Div(stardata.open_angle_polar, stardata.open_angle) - FixOne,
                         Tanh(Min2(Saturate,
                                   Mul(Pow10(stardata.aniso_OA_mult),
                                       PowWhole(dist, stardata.aniso_OA_power \div FixOne)))))
    IN <<open_angle_mult, vel_mult>>

\* multipliers <<open_angle_mult, vel_mult>> of wind anisotropy
spin_orbit_mult(true_anom, direction, stardata) ==
    LET dist == Abs(Mul(stardata.spin_inc,
                        Sin(true_anom - deg2rad(stardata.spin_Omega))))
        vel_mult ==
            FixOne + Mul(Div(stardata.windspeed_polar, stardata.windspeed1) - FixOne,
                         Tanh(Min2(Saturate,
                                   Mul(Pow10(stardata.aniso_vel_mult),
                                       PowWhole(dist, stardata.aniso_vel_power \div FixOne)))))
        open_angle_mult ==
            FixOne + Mul(Div(stardata.open_angle_polar, stardata.open_angle) - FixOne,
                         Tanh(Min2(Saturate,
                                   Mul(Pow10(stardata.aniso_OA_mult),
                                       PowWhole(dist, stardata.aniso_OA_power \div FixOne)))))
    IN <<open_angle_mult, vel_mult>>

\* the dithered angular coordinate of a particle of ring i
shifted_theta_of(theta_j, i) == (theta_j + i * FixOne) % TwoPi

\* the position of one particle of ring i, in the orbital frame
circle_point(i, nu, stardata, theta_j, plume_direction_i, width) ==
    LET shifted_theta == shifted_theta_of(theta_j, i)
        unit(norm) == <<FDiv(plume_direction_i[1], norm),
                        FDiv(plume_direction_i[2], norm),
                        FDiv(plume_direction_i[3], norm)>>
        circle(half_angle, radius) ==
            <<Mul(Cos(half_angle), radius),
              Mul(Mul(Sin(half_angle), Sin(shifted_theta)), radius),
              Mul(Mul(Sin(half_angle), Cos(shifted_theta)), radius)>>
        ring(direction, mult) ==
            rotate_z(ArcTan2(direction[2], direction[1]) + Pi,
                     circle(Min2(deg2rad(Mul(stardata.open_angle, mult[1])) \div 2,
                                 HalfPi),
                            Mul(width, mult[2])))
        towards(direction) == ring(direction, spin_orbit_mult(nu, direction, stardata))
    IN towards(unit(Norm3(plume_direction_i[1], plume_direction_i[2],
                          plume_direction_i[3])))

\* the angular separation of a particle from the companion direction
angular_dist_of(point, stardata) ==
    LET alpha == deg2rad(stardata.comp_incl)
        beta == deg2rad(stardata.comp_az)
        x == point[1]
        y == point[2]
        z == point[3]
        signed(acx) == IF IsNaN(acx) THEN NaN ELSE Sign(y) * acx
        sum(term1, term2) ==
            IF IsNaN(term1) \/ IsNaN(term2) THEN NaN ELSE ArcCos(term1 + term2)
        dist(particles_alpha, particles_beta) ==
            sum(IF IsNaN(particles_alpha) THEN NaN
                ELSE Mul(Cos(alpha), Cos(particles_alpha)),
                IF IsNaN(particles_alpha) \/ IsNaN(particles_beta) THEN NaN
                ELSE Mul(Mul(Sin(alpha), Sin(particles_alpha)),
                         Cos(beta - particles_beta)))
    IN dist(ArcCos(FDiv(z, Norm3(x, y, z))),
            signed(ArcCos(FDiv(x, Norm3(x, y, 0)))))

\* how much of the plume the companion photodissociates
photodis_prop == 1

\* the companion multiplier applied without regard to the cone
companion_dissociate_everywhere(point, stardata) ==
    LET comp_halftheta == deg2rad(stardata.comp_open \div 2)
        comp_gaussian(ratio) ==
            Max2(FixOne - Mul(stardata.comp_reduction, ExpNeg(Mul(ratio, ratio))), 0)
        dissociate(angular_dist) ==
            IF ~IsNaN(angular_dist)
               THEN comp_gaussian(Div(angular_dist, comp_halftheta))
               ELSE FixOne
    IN dissociate(angular_dist_of(point, stardata))

\* the companion multiplier without its floor at 0
companion_dissociate_unfloored(point, stardata) ==
    LET comp_halftheta == deg2rad(stardata.comp_open \div 2)
        comp_gaussian(ratio) ==
            FixOne - Mul(stardata.comp_reduction, ExpNeg(Mul(ratio, ratio)))
        dissociate(angular_dist) ==
            IF ~IsNaN(angular_dist) /\ angular_dist < photodis_prop * comp_halftheta
               THEN comp_gaussian(Div(angular_dist, comp_halftheta))
               ELSE FixOne
    IN dissociate(angular_dist_of(point, stardata))

\* the companion photodissociation multiplier of a particle
companion_dissociate_of(point, stardata) ==
    LET comp_halftheta == deg2rad(stardata.comp_open \div 2)
        comp_gaussian(ratio) ==
            Max2(FixOne - Mul(stardata.comp_reduction, ExpNeg(Mul(ratio, ratio))), 0)
        dissociate(angular_dist) ==
            IF ~IsNaN(angular_dist) /\ angular_dist < photodis_prop * comp_halftheta
               THEN comp_gaussian(Div(angular_dist, comp_halftheta))
               ELSE FixOne
    IN dissociate(angular_dist_of(point, stardata))

\* radians (milliradians) to degrees (millidegrees)
rad2deg(a) == RDiv(a * 180 * FixOne, Pi)

\* the floors of orb_sd and az_sd are 0.0001: a tenth of the fixed-point
\* unit, so the floored widths are held in units of 1 / (sd_floor_scale * FixOne)
sd_floor_scale == 10

\* max(sd, 0.0001), in units of 0.0001
val_sd_of(sd) == Max2(sd_floor_scale * sd, 1)

\* the orbital-variation multiplier switched off for orb_sd >= 1 instead
prop_orb_off_above(nu, stardata) ==
    LET val_orb_sd == val_sd_of(stardata.orb_sd)
        gauss == Gauss(sd_floor_scale * ((rad2deg(transf_nu_of(nu)) + 180 * FixOne)
                                         - stardata.orb_min),
                       val_orb_sd)
        prop_orb == FixOne - Mul(FixOne - stardata.orb_amp, gauss)
        switched == prop_orb + Heaviside(val_orb_sd - sd_floor_scale * FixOne, FixOne)
    IN Max2(Min2(switched, FixOne), 0)

\* the orbital-variation multiplier of a ring
prop_orb_of(nu, stardata) ==
    LET val_orb_sd == val_sd_of(stardata.orb_sd)
        gauss == Gauss(sd_floor_scale * ((rad2deg(transf_nu_of(nu)) + 180 * FixOne)
                                         - stardata.orb_min),
                       val_orb_sd)
        prop_orb == FixOne - Mul(FixOne - stardata.orb_amp, gauss)
        switched == prop_orb
                    + (FixOne - Heaviside(val_orb_sd - sd_floor_scale * FixOne, FixOne))
    IN Max2(Min2(switched, FixOne), 0)

\* the azimuthal-variation multiplier of a particle
prop_az_of(shifted_theta, stardata) ==
    LET val_az_sd == val_sd_of(stardata.az_sd)
        gauss == Gauss(sd_floor_scale * (rad2deg(shifted_theta) - stardata.az_min),
                       val_az_sd)
        prop_az == FixOne - Mul(FixOne - stardata.az_amp, gauss)
        switched == prop_az
                    + (FixOne - Heaviside(val_az_sd - sd_floor_scale * FixOne, FixOne))
    IN Min2(Max2(switched, 0), FixOne)

\* the weight of one particle of ring i
particle_weight(i, nu, stardata, theta_j, point, width) ==
    LET weights == Mul(gate_weight_of(nu, width, stardata),
                       companion_dissociate_of(point, stardata))
    IN Mul(weights, Mul(prop_orb_of(nu, stardata),
                        prop_az_of(shifted_theta_of(theta_j, i), stardata)))

\* dust_circle: the particles <<x, y, z, weight>> of ring i
dust_circle(i, nu, stardata, theta, plume_direction_i, width) ==
    LET particle(theta_j, point) ==
            <<point[1], point[2], point[3],
              particle_weight(i, nu, stardata, theta_j, point, width)>>
    IN [j \in 1..Len(theta) |->
           particle(theta[j],
                    circle_point(i, nu, stardata, theta[j], plume_direction_i, width))]

-----------------------------------------------------------------------------
(* Parameter mappings                                                      *)

\* a parameter mapping of the kind the simulator is called with: angles in
\* degrees, masses in solar masses, period in years, distances in AU / pc
apep ==
    [m1 |-> 15 * FixOne, m2 |-> 10 * FixOne,
     eccentricity |-> 700, inclination |-> 25 * FixOne,
     asc_node |-> 0, arg_peri |-> 0,
     open_angle |-> 90 * FixOne, period |-> FixOne, distance |-> 10 * FixOne,
     windspeed1 |-> 900, windspeed2 |-> 2400, term_windspeed |-> 900,
     accel_rate |-> -5 * FixOne,
     turn_on |-> -135 * FixOne, turn_off |-> 135 * FixOne,
     gradual_turn |-> 0, nuc_dist |-> 0, phase |-> 600, sigma |-> 2 * FixOne,
     orb_sd |-> 0, orb_amp |-> 0, orb_min |-> 180 * FixOne,
     az_sd |-> 0, az_amp |-> 0, az_min |-> 0,
     comp_incl |-> 90 * FixOne, comp_az |-> 0, comp_open |-> 90 * FixOne,
     comp_reduction |-> 0,
     spin_inc |-> 0, spin_Omega |-> 0,
     windspeed_polar |-> 900, open_angle_polar |-> 90 * FixOne,
     aniso_vel_mult |-> -FixOne, aniso_vel_power |-> FixOne,
     aniso_OA_mult |-> -FixOne, aniso_OA_power |-> FixOne,
     histmax |-> FixOne, lum_power |-> FixOne,
     star1amp |-> 0, star2amp |-> 0, star3amp |-> 0,
     star1sd |-> 0, star2sd |-> 0, star3sd |-> 0, star3dist |-> 100 * FixOne]

\* the parameter mappings dust_circle is called with
RingStars ==
    { [apep EXCEPT !.gradual_turn = g, !.nuc_dist = nd, !.comp_reduction = cr,
                   !.orb_sd = os, !.orb_amp = oa, !.az_sd = 40 * FixOne,
                   !.az_amp = 500] :
        g \in {0, FixOne, 10 * FixOne, 57 * FixOne, 58 * FixOne},
        nd \in {10 * FixOne},
        cr \in {-500, 0, 1500},
        os \in {0, 999, FixOne, 20 * FixOne},
        oa \in {-500, 500} }

\* the number of particles of a ring
n_points == 3

\* the angular grid without its endpoint: 2 * pi * j / n
theta_open(n) == [j \in 1..n |-> RDiv(TwoPi * (j - 1), n)]

\* theta = 2 * pi * linspace(0, 1, n_points)
theta_of(n) == [j \in 1..n |-> RDiv(TwoPi * (j - 1), n - 1)]

\* the largest ring index a ring is generated for
MaxRing == 1

\* the true anomalies dust_circle is called with
NuValues ==
    {0, 1000, deg2rad(135 * FixOne), deg2rad(135 * FixOne) + 80, Pi, -Pi,
     TwoPi - deg2rad(135 * FixOne), TwoPi - deg2rad(135 * FixOne) - 80, 5000, TwoPi}

\* the ring widths dust_circle is called with
WidthValues == {Mul(10 * FixOne, AU2km) - 1, Mul(10 * FixOne, AU2km), 200 * FixOne}

\* the separation of the stars the ring inputs are built with
RingSeparation == 4 * FixOne

\* the inputs of one dust_circle call
RingInputs ==
    { [i |-> i, nu |-> nu, width |-> w,
       direction |-> <<Mul(Cos(nu), RingSeparation), Mul(Sin(nu), RingSeparation), 0>>] :
        i \in 0..MaxRing, nu \in NuValues, w \in WidthValues }

-----------------------------------------------------------------------------
(* Arithmetic on values that may be NaN                                    *)

\* a + b
FAdd(a, b) == IF IsNaN(a) \/ IsNaN(b) THEN NaN ELSE a + b

\* a * b
FMul(a, b) == IF IsNaN(a) \/ IsNaN(b) THEN NaN ELSE Mul(a, b)

\* jnp.minimum(a, b)
FMin(a, b) == IF IsNaN(a) \/ IsNaN(b) THEN NaN ELSE Min2(a, b)

\* jnp.exp(-q)
FExpNeg(q) == IF IsNaN(q) THEN NaN ELSE ExpNeg(q)

\* jnp.abs(b) ** n for a whole n (NaN ** 0 is 1)
FPow(b, n) == IF n = 0 THEN FixOne ELSE IF IsNaN(b) THEN NaN ELSE PowWhole(Abs(b), n)

\* a * b * c with the product of the last two taken first
Mul3(a, b, c) == Mul(a, Mul(b, c))

\* jnp.linspace(a, b, n)[k] for k in 0..n-1, n >= 2
linspace(a, b, n, k) == a + RDiv(k * (b - a), n - 1)

-----------------------------------------------------------------------------
(* smooth_histogram2d_base: binning, blur and normalisation of the image   *)

\* im_size: the number of bins along each axis of the image
ImSize == 3

\* the bins <<first index, second index>> of an image
Bins == (0..(ImSize - 1)) \X (0..(ImSize - 1))

\* jnp.zeros((im_size, im_size))
zeros == [b \in Bins |-> 0]

\* jnp.min(xedges) of the edges linspace(-bound, bound, im_size + 1) whose
\* bins are side_width wide
min_edge(side_width) == -((ImSize * side_width) \div 2)

\* jnp.max(xedges) of the same edges
max_edge(side_width) == min_edge(side_width) + ImSize * side_width

\* the check left out: every index passes
edge_check_off(index) == 1

\* heaviside(index, 1) * heaviside(im_size - index, 0), as an integer
edge_check(index) ==
    Mul(Heaviside(index, FixOne), Heaviside(ImSize - index, 0)) \div FixOne

\* <<index, one_minus_index, a_s>> of a coordinate measured from the lowest
\* edge: its bin, the neighbouring bin it spills into and its share of the
\* coordinate's own bin
axis_split(pos, side_width) ==
    LET alphas == pos % side_width
    IN <<pos \div side_width,
         pos \div side_width + (IF alphas > side_width \div 2 THEN 1 ELSE -1),
         Min2(alphas, side_width - alphas) + side_width \div 2>>

\* the four updates <<first index, second index, value>> of one particle:
\* main, horizontal, vertical and corner quadrant
quadrants(particle, weight, side_width) ==
    LET updates(xs, ys) ==
            << <<xs[1], ys[1],
                 Mul3(xs[3], ys[3], weight) * edge_check(xs[1]) * edge_check(ys[1])>>,
               <<xs[2], ys[1],
                 Mul3(side_width - xs[3], ys[3], weight)
                     * edge_check(xs[2]) * edge_check(ys[1])>>,
               <<xs[1], ys[2],
                 Mul3(xs[3], side_width - ys[3], weight)
                     * edge_check(ys[2]) * edge_check(xs[1])>>,
               <<xs[2], ys[2],
                 Mul3(side_width - xs[3], side_width - ys[3], weight)
                     * edge_check(xs[2]) * edge_check(ys[2])>> >>
    IN updates(axis_split(particle[1] - min_edge(side_width), side_width),
               axis_split(particle[2] - min_edge(side_width), side_width))

\* the position along an axis that an index of H.at[...] refers to: a
\* negative index counts back from the end, an index off the axis refers to
\* no position (-1)
at_index(index) ==
    IF index >= 0 /\ index < ImSize THEN index
    ELSE IF index < 0 /\ index >= -ImSize THEN index + ImSize
    ELSE -1

\* one update of an indexed assignment: the value replaces the bin's content
at_set(H, update) ==
    IF at_index(update[1]) < 0 \/ at_index(update[2]) < 0 THEN H
    ELSE [H EXCEPT ![<<at_index(update[1]), at_index(update[2])>>] = update[3]]

\* one update of H.at[...].add(...): the value is added to the bin's content
at_add(H, update) ==
    IF at_index(update[1]) < 0 \/ at_index(update[2]) < 0 THEN H
    ELSE [H EXCEPT ![<<at_index(update[1]), at_index(update[2])>>] = @ + update[3]]

\* what the particles lo..hi add to bin b in the statement of quadrant q
RECURSIVE at_add_sum(_, _, _, _, _, _)
at_add_sum(cloud, side_width, q, b, lo, hi) ==
    IF lo > hi THEN 0
    ELSE IF lo = hi
       THEN at_add(zeros, quadrants(cloud.particles[lo], cloud.weights[lo],
                                    side_width)[q])[b]
    ELSE at_add_sum(cloud, side_width, q, b, lo, (lo + hi) \div 2)
         + at_add_sum(cloud, side_width, q, b, (lo + hi) \div 2 + 1, hi)

\* H.at[...].add(...) of quadrant q for all the particles: the updates that
\* share a bin are all added to it
at_add_all(H, cloud, side_width, q) ==
    [b \in Bins |-> H[b] + at_add_sum(cloud, side_width, q, b, 1, Len(cloud.particles))]

\* the image after the four H.at[...].add(...) statements
bin_particles(cloud, side_width) ==
    at_add_all(at_add_all(at_add_all(at_add_all(zeros, cloud, side_width, 1),
                                     cloud, side_width, 2),
                          cloud, side_width, 3),
               cloud, side_width, 4)

\* H.T
transpose(H) == [b \in Bins |-> H[<<b[2], b[1]>>]]

\* shape = 30 // 2: the half width of the blur kernel
shape == 15

\* jnp.exp(-(gx*gx + gy*gy) / (2 * sigma**2)) at one offset of the kernel
gxy_of(gx, gy, sigma) ==
    IF Mul(sigma, sigma) = 0
       THEN (IF gx = 0 /\ gy = 0 THEN NaN ELSE 0)
       ELSE ExpNeg(Div((gx * gx + gy * gy) * FixOne, 2 * Mul(sigma, sigma)))

\* gxy.sum(): the sum of the kernel over its offsets lo..hi, counted row by
\* row from <<-shape, -shape>>
RECURSIVE gxy_sum(_, _, _)
gxy_sum(lo, hi, sigma) ==
    IF lo = hi
       THEN gxy_of((lo \div (2 * shape + 1)) - shape, (lo % (2 * shape + 1)) - shape, sigma)
       ELSE LET mid == (lo + hi) \div 2
            IN FAdd(gxy_sum(lo, mid, sigma), gxy_sum(mid + 1, hi, sigma))

\* the k-th bin in row-major order, k in 1..ImSize * ImSize
bin_at(k) == <<(k - 1) \div ImSize, (k - 1) % ImSize>>

\* the blurred value of bin b: the sum over the first k bins a of
\* H[a] * gxy[b - a] / gxy.sum()
RECURSIVE convolve_at(_, _, _, _, _)
convolve_at(H, b, sigma, total, k) ==
    IF k = 0 THEN 0
    ELSE LET a == bin_at(k)
             gx == b[1] - a[1]
             gy == b[2] - a[2]
             g == IF Abs(gx) > shape \/ Abs(gy) > shape THEN 0
                  ELSE FDiv(gxy_of(gx, gy, sigma), total)
         IN FAdd(convolve_at(H, b, sigma, total, k - 1), FMul(H[a], g))

\* signal.convolve(H, gxy, mode='same') with the normalised kernel
convolve(H, sigma) ==
    LET blurred(total) ==
            [b \in Bins |-> convolve_at(H, b, sigma, total, ImSize * ImSize)]
    IN blurred(gxy_sum(0, (2 * shape + 1) * (2 * shape + 1) - 1, sigma))

\* jnp.max(H): NaN as soon as one bin is NaN
image_max(H) ==
    LET largest(values) ==
            IF NaN \in values THEN NaN
            ELSE CHOOSE m \in values : \A v \in values : v <= m
    IN largest({H[b] : b \in Bins})

\* the image left as it is, not divided by its maximum
unnormalised(H) == H

\* H /= jnp.max(H)
normalise(H) ==
    LET divide(m) == [b \in Bins |-> FDiv(H[b], m)]
    IN divide(image_max(H))

\* H = jnp.minimum(H, histmax); H /= jnp.max(H)
clip(H, stardata) == normalise([b \in Bins |-> FMin(H[b], stardata.histmax)])

\* H = H ** lum_power (of the absolute value unless lum_power is 1), for a
\* whole lum_power
powered(H, stardata) ==
    [b \in Bins |->
        IF stardata.lum_power = FixOne THEN H[b]
        ELSE FPow(H[b], stardata.lum_power \div FixOne)]

\* H = H ** lum_power; H /= jnp.max(H)
power(H, stardata) == normalise(powered(H, stardata))

-----------------------------------------------------------------------------
(* The orbit                                                               *)

\* floor of the cube root of a natural number, by bisection on [lo, hi)
RECURSIVE ICbrtBetween(_, _, _)
ICbrtBetween(n, lo, hi) ==
    IF hi - lo <= 1 THEN lo
    ELSE LET mid == (lo + hi) \div 2
         IN IF mid * mid * mid <= n THEN ICbrtBetween(n, mid, hi)
                                    ELSE ICbrtBetween(n, lo, mid)

\* jnp.cbrt of a fixed-point value 0 <= a, to the nearest hundredth
Cbrt(a) == 10 * ICbrtBetween(a * FixOne, 0, Min2(a * FixOne + 1, 1291))

\* jnp.tan
Tan(x) == IF Cos(x) = 0 THEN Sign(Sin(x)) * Saturate ELSE Div(Sin(x), Cos(x))

\* the least E in [lo, hi] with E - ecc * sin(E) >= mean_anom
RECURSIVE kepler_between(_, _, _, _)
kepler_between(mean_anom, ecc, lo, hi) ==
    IF lo >= hi THEN lo
    ELSE LET mid == (lo + hi) \div 2
         IN IF mid - Mul(ecc, Sin(mid)) >= mean_anom
               THEN kepler_between(mean_anom, ecc, lo, mid)
               ELSE kepler_between(mean_anom, ecc, mid + 1, hi)

\* kepler: the eccentric anomaly of a mean anomaly.  The starter and the
\* refiner of the program converge on the root of E - ecc * sin(E) = M on
\* [0, pi]; the root is located here by bisection
kepler(mean_anom, ecc) ==
    LET folded == mean_anom % TwoPi
        high == folded > Pi
        wrap(ecc_anom) == IF high THEN TwoPi - ecc_anom ELSE ecc_anom
    IN wrap(kepler_between(IF high THEN TwoPi - folded ELSE folded, ecc, 0, Pi))

\* true_from_eccentric_anomaly
true_from_eccentric_anomaly(E, ecc) ==
    2 * ArcTan2(Mul(Sqrt(FixOne + ecc), Sin(RDiv(E, 2))),
                Mul(Sqrt(FixOne - ecc), Cos(RDiv(E, 2))))

\* calculate_semi_major: <<a1, a2>> in units of 1e8 km, by Kepler's third law
\* in astronomical units (a^3 = P^2 * M with a in AU, P in years, M in solar
\* masses)
calculate_semi_major(period_s, m1, m2) ==
    LET axes(a) == <<Mul(Div(m2, m1 + m2), a), a - Mul(Div(m2, m1 + m2), a)>>
        years(p) == Mul(Cbrt(Mul(Mul(p, p), m1 + m2)), AU2km)
    IN axes(years(Div(period_s, yr2s)))

\* stardata['period'] * 365.25 * 24 * 60 * 60
period_s_of(stardata) == Mul(stardata.period, yr2s)

\* <<positions1, positions2>>: the two stars in the orbital frame, at
\* eccentric anomaly E and true anomaly true_anomaly
star_positions(E, true_anomaly, period_s, stardata) ==
    LET a == calculate_semi_major(period_s, stardata.m1, stardata.m2)
        r1 == Mul(a[1], FixOne - Mul(stardata.eccentricity, Cos(E)))
        r2 == Mul(a[2], FixOne - Mul(stardata.eccentricity, Cos(E)))
    IN << <<Mul(Cos(true_anomaly), r1), Mul(Sin(true_anomaly), r1), 0>>,
          <<-Mul(Cos(true_anomaly), r2), -Mul(Sin(true_anomaly), r2), 0>> >>

\* The hand-defined derivatives act within a few machine epsilons of 0, far
\* below a thousandth: there a double is held as [mant, exp], standing for
\* mant / FixOne * 2^exp, and the primal arguments are whole multiples of
\* eps = 2^-52.

\* eps = 2^EpsExp
EpsExp == -52

\* tol = 10 * eps, in multiples of eps
tol == 10

\* the derivative of sqrt without its guard: 0.5 * x_dot / sqrt(x)
sqrt_jvp_unguarded(x, x_dot) ==
    [primal |-> IF x < 0 THEN [mant |-> NaN, exp |-> 0]
                ELSE [mant |-> Sqrt(x * FixOne), exp |-> EpsExp \div 2],
     tangent |-> IF x <= 0 THEN [mant |-> NaN, exp |-> 0]
                 ELSE [mant |-> Div(RDiv(x_dot, 2), Sqrt(x * FixOne)),
                       exp |-> -(EpsExp \div 2)]]

\* zero_safe_sqrt_jvp at x * eps with input tangent x_dot
zero_safe_sqrt_jvp(x, x_dot) ==
    LET cond == x <= tol
        primal_out == IF x < 0 THEN [mant |-> NaN, exp |-> 0]
                      ELSE [mant |-> Sqrt(x * FixOne), exp |-> EpsExp \div 2]
        \* val_where**0.5: 1 under cond, sqrt(x * eps) otherwise
        denom == IF cond THEN [mant |-> FixOne, exp |-> 0]
                 ELSE [mant |-> Sqrt(x * FixOne), exp |-> EpsExp \div 2]
    IN [primal |-> primal_out,
        tangent |-> [mant |-> Div(RDiv(x_dot, 2), denom.mant), exp |-> -denom.exp]]

\* zero_safe_arctan2_jvp at (x * eps, y * eps) with input tangents x_dot, y_dot
zero_safe_arctan2_jvp(x, y, x_dot, y_dot) ==
    LET cond_x == x > -tol /\ x < tol
        cond_y == y > -tol /\ y < tol
        cond == cond_x /\ cond_y
        \* 1 under cond, x**2 + y**2 = (x * x + y * y) * eps^2 otherwise
        denom == IF cond THEN [mant |-> FixOne, exp |-> 0]
                 ELSE [mant |-> (x * x + y * y) * FixOne, exp |-> 2 * EpsExp]
    IN [primal |-> [mant |-> ArcTan2(x * FixOne, y * FixOne), exp |-> 0],
        \* (y * x_dot - x * y_dot) carries one factor eps
        tangent |-> [mant |-> Div(y * x_dot - x * y_dot, denom.mant),
                     exp |-> EpsExp - denom.exp]]

\* the three rotations applied in the opposite order
euler_angles_reversed(coords, Omega, i, w) ==
    rotate_z(deg2rad(-w), rotate_x(deg2rad(-i), rotate_z(deg2rad(-Omega), coords)))

\* euler_angles: rotate_z(-Omega) @ rotate_x(-i) @ rotate_z(-w) @ coords
euler_angles(coords, Omega, i, w) ==
    rotate_z(deg2rad(-Omega), rotate_x(deg2rad(-i), rotate_z(deg2rad(-w), coords)))

\* 60 * 60 * 180 / pi * arctan(x / (distance * 3.086e13)), in arcseconds:
\* the angle is far below a milliradian, where arctan(u) = u
arcsec_of(x, stardata) ==
    RDiv(x * 2063, RDiv(stardata.distance * 3086, FixOne))

\* the orbital-frame coordinates seen on the sky
project(coords, stardata) ==
    LET sky(v) == <<arcsec_of(v[1], stardata), arcsec_of(v[2], stardata),
                    arcsec_of(v[3], stardata)>>
    IN sky(euler_angles(coords, stardata.asc_node, stardata.inclination,
                        stardata.arg_peri))

\* orbital_position: <<positions1, positions2>> at the phase of stardata
orbital_position(stardata) ==
    LET period_s == period_s_of(stardata)
        time == Mul(period_s, stardata.phase % FixOne)
        at(E) == star_positions(E, true_from_eccentric_anomaly(E, stardata.eccentricity),
                                period_s, stardata)
    IN at(kepler(Mul(TwoPi, Div(time, period_s)), stardata.eccentricity))

-----------------------------------------------------------------------------
(* dust_plume_sub: the rings of the plume                                  *)

\* max_anom = 180 - 1e-1 degrees
max_anom == 179900

\* the mean anomaly of a true anomaly given in degrees
mean_anom_of(true_anom, ecc) ==
    LET ecc_factor == Sqrt(Div(FixOne - ecc, FixOne + ecc))
        mean(ecc_anom) == ecc_anom - Mul(ecc, Sin(ecc_anom))
    IN mean(2 * ArcTan2(Tan(RDiv(deg2rad(true_anom) % TwoPi, 2)),
                        Div(FixOne, ecc_factor)))

\* turn_on_mean_anom
turn_on_mean_anom(stardata) ==
    mean_anom_of(Max2(-max_anom, stardata.turn_on - 2 * stardata.gradual_turn),
                 stardata.eccentricity)

\* turn_off_mean_anom
turn_off_mean_anom(stardata) ==
    mean_anom_of(Min2(max_anom, stardata.turn_off + 2 * stardata.gradual_turn),
                 stardata.eccentricity)

\* mean_anomalies[i]: the schedule of one shell, tiled n_orbits times
mean_anomaly_of(i, n_t, turn_on, turn_off) ==
    (linspace(0, turn_off - turn_on, n_t, i % n_t) + turn_on) % TwoPi

\* the fractional time of a ring wrapped into [0, 2) instead of [0, 1)
non_dimensional_time_two_periods(i, n_t, turn_on, turn_off, phase) ==
    Div((linspace(turn_on, turn_off, n_t, i % n_t) % TwoPi) - Mul(TwoPi, phase),
        TwoPi) % (2 * FixOne)

\* non_dimensional_times[i]: the fractional time of a ring within its shell
non_dimensional_time_of(i, n_t, turn_on, turn_off, phase) ==
    Div((linspace(turn_on, turn_off, n_t, i % n_t) % TwoPi) - Mul(TwoPi, phase),
        TwoPi) % FixOne

\* nonlinear_accel: the speed of a ring of age t
nonlinear_accel(t, stardata) ==
    stardata.term_windspeed
    + Mul(stardata.windspeed1 - stardata.term_windspeed,
          ExpNeg(Mul(Pow10(stardata.accel_rate), Div(t, yr2s))))

\* the age of ring i: period_s * (n_orbits - (shell + non_dimensional_time))
ring_age(i, n_t, n_orbits, period_s, non_dimensional_time) ==
    Mul(period_s, n_orbits * FixOne - ((i \div n_t) * FixOne + non_dimensional_time))

\* widths[i]: the distance ring i has travelled at its age
width_of(age, stardata) == Mul(nonlinear_accel(age, stardata), age)

\* the particles <<x, y, z, weight>> of a ring, moved to the star that sheds
\* them and seen on the sky
ring_on_sky(ring, origin, stardata) ==
    LET weighted(sky, weight) == <<sky[1], sky[2], sky[3], weight>>
    IN [j \in 1..Len(ring) |->
           weighted(project(<<ring[j][1] + origin[1], ring[j][2] + origin[2],
                              ring[j][3] + origin[3]>>, stardata),
                    ring[j][4])]

\* ring i, generated about the direction from the second star to the first
ring_about(i, true_anomaly, stars, theta, width, stardata) ==
    ring_on_sky(dust_circle(i, true_anomaly, stardata, theta,
                            <<stars[1][1] - stars[2][1], stars[1][2] - stars[2][2],
                              stars[1][3] - stars[2][3]>>,
                            width),
                stars[2], stardata)

\* ring i at the true anomaly of its eccentric anomaly
ring_at_true_anomaly(i, E, true_anomaly, theta, width, period_s, stardata) ==
    ring_about(i, true_anomaly, star_positions(E, true_anomaly, period_s, stardata),
               theta, width, stardata)

\* ring i at its eccentric anomaly
ring_at(i, E, theta, width, period_s, stardata) ==
    ring_at_true_anomaly(i, E, true_from_eccentric_anomaly(E, stardata.eccentricity),
                         theta, width, period_s, stardata)

\* the particles <<x, y, z, weight>> of ring i, on the sky
plume_ring(i, theta, n_t, n_orbits, period_s, turn_on, turn_off, stardata) ==
    ring_at(i,
            kepler(mean_anomaly_of(i, n_t, turn_on, turn_off), stardata.eccentricity),
            theta,
            width_of(ring_age(i, n_t, n_orbits, period_s,
                              non_dimensional_time_of(i, n_t, turn_on, turn_off,
                                                      stardata.phase)),
                     stardata),
            period_s, stardata)

\* the cloud of the particles that carry weight only
flatten_nonzero(rings, n) ==
    LET kept(all) == SelectSeq(all, LAMBDA particle : particle[4] > 0)
        cloud_of(particles) ==
            [particles |-> [m \in 1..Len(particles) |->
                               <<particles[m][1], particles[m][2], particles[m][3]>>],
             weights |-> [m \in 1..Len(particles) |-> particles[m][4]]]
    IN cloud_of(kept([m \in 1..(Len(rings) * n) |->
                         rings[((m - 1) \div n) + 1][((m - 1) % n) + 1]]))

\* the cloud [particles, weights] of the rings, particle j of ring i at flat
\* index i * n + j
flatten(rings, n) ==
    [particles |-> [m \in 1..(Len(rings) * n) |->
                       <<rings[((m - 1) \div n) + 1][((m - 1) % n) + 1][1],
                         rings[((m - 1) \div n) + 1][((m - 1) % n) + 1][2],
                         rings[((m - 1) \div n) + 1][((m - 1) % n) + 1][3]>>],
     weights |-> [m \in 1..(Len(rings) * n) |->
                     rings[((m - 1) \div n) + 1][((m - 1) % n) + 1][4]]]

\* the rings of the plume between the two switching anomalies
plume_between(theta, n_t, n_orbits, period_s, turn_on, turn_off, stardata) ==
    flatten([r \in 1..(n_t * n_orbits) |->
                plume_ring(r - 1, theta, n_t, n_orbits, period_s, turn_on, turn_off,
                           stardata)],
            Len(theta))

\* dust_plume_sub: the cloud [particles, weights]
dust_plume_sub(theta, n_t, n_orbits, period_s, stardata) ==
    plume_between(theta, n_t, n_orbits, period_s,
                  turn_on_mean_anom(stardata), turn_off_mean_anom(stardata), stardata)

-----------------------------------------------------------------------------
(* dust_plume and add_stars                                                *)

\* n_t: the number of rings of one orbital period
n_t == 3

\* n_orbits: the number of shells dust_plume generates
n_orbits == 1

\* dust_plume: the cloud of a parameter mapping
dust_plume(stardata) ==
    dust_plume_sub(theta_of(n_points), n_t, n_orbits, period_s_of(stardata), stardata)

\* amp * exp(-((binx - pos[0])**2 + (biny - pos[1])**2) / (2 * sd**2))
gaussian_spread(amp, pos, sd, binx, biny) ==
    LET spread(r2, s2) ==
            IF s2 = 0 /\ r2 # 0 THEN 0 ELSE FMul(amp, FExpNeg(FDiv(r2, s2)))
    IN spread(Mul(binx - pos[1], binx - pos[1]) + Mul(biny - pos[2], biny - pos[2]),
              2 * Mul(sd, sd))

\* H + star1gaussian + star2gaussian + star3gaussian
overlay_stars(H, stardata, side_width) ==
    LET bins(k) == linspace(-max_edge(side_width), max_edge(side_width), ImSize, k)
        star3dist == Mul(stardata.star3dist, AU2km)
        incl == deg2rad(stardata.comp_incl)
        az == deg2rad(stardata.comp_az)
        pos3 == <<Mul(star3dist, Mul(Sin(incl), Cos(az))),
                  Mul(star3dist, Mul(Sin(incl), Sin(az))),
                  Mul(star3dist, Cos(incl))>>
        overlay(pos1, pos2, pos3_sky) ==
            [b \in Bins |->
                FAdd(FAdd(FAdd(H[b],
                               gaussian_spread(stardata.star1amp, pos1,
                                               Pow10(stardata.star1sd),
                                               bins(b[2]), bins(b[1]))),
                          gaussian_spread(stardata.star2amp, pos2,
                                          Pow10(stardata.star2sd),
                                          bins(b[2]), bins(b[1]))),
                     gaussian_spread(stardata.star3amp, pos3_sky,
                                     Pow10(stardata.star3sd),
                                     bins(b[2]), bins(b[1])))]
        transform_orbits(stars) ==
            overlay(project(stars[1], stardata), project(stars[2], stardata),
                    project(pos3, stardata))
    IN transform_orbits(orbital_position(stardata))

\* add_stars: the image with the three stars overlaid, normalised again
add_stars(H, stardata, side_width) ==
    normalise(overlay_stars(H, stardata, side_width))

\* ring i of the plume dust_plume generates for a parameter mapping
ring_of_plume(i, stardata) ==
    plume_ring(i, theta_of(n_points), n_t, n_orbits, period_s_of(stardata),
               turn_on_mean_anom(stardata), turn_off_mean_anom(stardata), stardata)

\* <<positions1, positions2>> at the anomaly of ring i
positions_of_plume(i, stardata) ==
    LET at(E) == star_positions(E, true_from_eccentric_anomaly(E, stardata.eccentricity),
                                period_s_of(stardata), stardata)
    IN at(kepler(mean_anomaly_of(i, n_t, turn_on_mean_anom(stardata),
                                 turn_off_mean_anom(stardata)),
                 stardata.eccentricity))

\* ring i as dust_circle returns it under the vmap, about the second star
circle_of_plume(i, stardata) ==
    LET about(stars, E) ==
            dust_circle(i, true_from_eccentric_anomaly(E, stardata.eccentricity), stardata,
                        theta_of(n_points),
                        <<stars[1][1] - stars[2][1], stars[1][2] - stars[2][2],
                          stars[1][3] - stars[2][3]>>,
                        width_of(ring_age(i, n_t, n_orbits, period_s_of(stardata),
                                          non_dimensional_time_of(i, n_t,
                                              turn_on_mean_anom(stardata),
                                              turn_off_mean_anom(stardata),
                                              stardata.phase)),
                                 stardata))
    IN about(positions_of_plume(i, stardata),
             kepler(mean_anomaly_of(i, n_t, turn_on_mean_anom(stardata),
                                    turn_off_mean_anom(stardata)),
                    stardata.eccentricity))

\* jnp.ravel and .flatten() of an array of rows of n entries, row after row
ravel(rows, n) ==
    [m \in 1..(Len(rows) * n) |-> rows[((m - 1) \div n) + 1][((m - 1) % n) + 1]]

\* jnp.tile(a, n): the whole array n times over
tile(a, n) == [m \in 1..(Len(a) * n) |-> a[((m - 1) % Len(a)) + 1]]

\* jnp.repeat(a, n, axis=-1): every entry n times in a row
repeat(a, n) == [m \in 1..(Len(a) * n) |-> a[((m - 1) \div n) + 1]]

\* weights = jnp.where((x != 0) & (y != 0), weights, 0) of spiral_grid and
\* spiral_grid_w_bins
spiral_weights(particles, weights) ==
    [j \in DOMAIN weights |->
        IF particles[j][1] # 0 /\ particles[j][2] # 0 THEN weights[j] ELSE 0]

\* the weights zeroed at the origin only
spiral_weights_origin(particles, weights) ==
    [j \in DOMAIN weights |->
        IF particles[j][1] = 0 /\ particles[j][2] = 0 THEN 0 ELSE weights[j]]

\* the bin of a coordinate among ImSize equal bins on [lo, hi], the last bin
\* closed on the right; -1 outside the range
histogram_bin(x, lo, hi) ==
    IF x < lo \/ x > hi THEN -1
    ELSE IF x = hi THEN ImSize - 1
    ELSE ((x - lo) * ImSize) \div (hi - lo)

\* the range <<lo, hi>> jnp.histogram2d takes for an axis when it is given a
\* number of bins: the extent of the data, widened by a half when it is empty
histogram_range(xs) ==
    LET lo == CHOOSE v \in xs : \A w \in xs : v <= w
        hi == CHOOSE v \in xs : \A w \in xs : w <= v
    IN IF lo = hi THEN <<lo - FixOne \div 2, hi + FixOne \div 2>> ELSE <<lo, hi>>

\* the weight of particles 1..n that falls into bin b
RECURSIVE histogram2d_sum(_, _, _, _, _, _)
histogram2d_sum(particles, weights, xrange, yrange, b, n) ==
    IF n = 0 THEN 0
    ELSE histogram2d_sum(particles, weights, xrange, yrange, b, n - 1)
         + (IF /\ histogram_bin(particles[n][1], xrange[1], xrange[2]) = b[1]
               /\ histogram_bin(particles[n][2], yrange[1], yrange[2]) = b[2]
            THEN weights[n] ELSE 0)

\* jnp.histogram2d(x, y, bins, weights=weights)
histogram2d(particles, weights, xrange, yrange) ==
    [b \in Bins |-> histogram2d_sum(particles, weights, xrange, yrange, b, Len(weights))]

\* the bound without its margin: max(max |x|, max |y|)
fov_bound_tight(particles) ==
    LET extent == {Abs(particles[j][1]) : j \in DOMAIN particles}
                      \cup {Abs(particles[j][2]) : j \in DOMAIN particles}
    IN CHOOSE m \in extent : \A v \in extent : v <= m

\* smooth_histogram2d: bound = max(max |x|, max |y|) * (1 + 2 / im_size)
fov_bound(particles) ==
    LET extent == {Abs(particles[j][1]) : j \in DOMAIN particles}
                      \cup {Abs(particles[j][2]) : j \in DOMAIN particles}
        largest == CHOOSE m \in extent : \A v \in extent : v <= m
    IN Mul(largest, FixOne + Div(2 * FixOne, ImSize * FixOne))

\* side_width = xedges[1] - xedges[0] of xedges = linspace(-bound, bound, im_size + 1)
fov_side_width(bound) ==
    linspace(-bound, bound, ImSize + 1, 1) - linspace(-bound, bound, ImSize + 1, 0)

\* the most negative integer, far off every grid
IntLowest == -2000000

\* floor(nan).astype(int): what the conversion of a NaN to an integer yields
\* is not defined; the builds yield 0 or the most negative integer
nan_as_int == {0, IntLowest}

\* the four updates of a particle whose position on the grid is 0 / 0: the
\* indices come from a NaN, the neighbours are one bin below them (nan >
\* side_width / 2 is false), and the values are NaN
nan_quadrants(xi, yi) ==
    << <<xi, yi, NaN>>, <<xi - 1, yi, NaN>>, <<xi, yi - 1, NaN>>, <<xi - 1, yi - 1, NaN>> >>

\* the image parameters the compositor is called with
HistStars ==
    { [apep EXCEPT !.histmax = 500, !.lum_power = 2 * FixOne, !.star1amp = FixOne] }

\* the bin widths of the grids the compositor is called with
SideWidths == {FixOne, 2 * FixOne}

\* the coordinate q quarters of a bin above the lowest edge
quarter(q, side_width) == min_edge(side_width) + (q * side_width) \div 4

\* particles <<x, y, weight>> the clouds are made of: inside the grid with
\* all neighbours inside, at a bin centre, in a border bin, outside the grid
\* on either side, and of weight zero
ParticleChoices(side_width) ==
    { <<quarter(v[1], side_width), quarter(v[2], side_width), v[3]>> :
        v \in { <<3, 3, 640>>, <<6, 6, 640>>, <<1, 6, 640>>,
                <<-2, 6, 640>>, <<4 * ImSize + 1, 6, 640>>, <<3, 3, 0>> } }

\* the largest number of particles of a cloud handed to the compositor
MaxParticles == 2

\* the clouds [particles, weights] the compositor is called with
Clouds(side_width) ==
    { [particles |-> [j \in DOMAIN c |-> <<c[j][1], c[j][2], 0>>],
       weights |-> [j \in DOMAIN c |-> c[j][3]]] :
        c \in UNION { [1..n -> ParticleChoices(side_width)] : n \in 0..MaxParticles } }

\* vlt_years: the epochs of the model loop
vlt_years == <<2016, 2017, 2018, 2024>>

\* the parameter mappings the model loop is run with
PlumeParams ==
    { [apep EXCEPT !.distance = 300 * FixOne, !.star1amp = FixOne,
                   !.phase = v[1], !.period = v[2], !.eccentricity = v[3]] :
        v \in {0, 300, 990} \X {FixOne, 2 * FixOne, -FixOne} \X {400, 700} }

\* the bin width of xbins, ybins
PlumeSideWidth == FixOne

\* the primal arguments of the derivatives, in multiples of eps
JvpPrimals == {-20, -10, -9, -1, 0, 1, 9, 10, 11, 20}

\* the input tangents of the derivatives
JvpTangents == {-FixOne, 0, FixOne, 2 * FixOne}

\* the inputs of one call of a derivative rule
JvpInputs ==
    { [x |-> p[1], y |-> p[2], x_dot |-> t[1], y_dot |-> t[2]] :
        p \in JvpPrimals \X JvpPrimals, t \in JvpTangents \X JvpTangents }

\* the angles, in degrees, euler_angles is called with
EulerAngles == {0, 90 * FixOne, 180 * FixOne, 270 * FixOne, -90 * FixOne, 30 * FixOne}

\* the coordinates euler_angles is called with
EulerCoords ==
    { <<FixOne, 0, 0>>, <<0, FixOne, 0>>, <<0, 0, FixOne>>,
      <<FixOne, 2 * FixOne, 3 * FixOne>> }

\* the inputs of one euler_angles call
EulerInputs ==
    { [coords |-> c, Omega |-> a[1], i |-> a[2], w |-> a[3]] :
        c \in EulerCoords, a \in EulerAngles \X EulerAngles \X EulerAngles }

\* the parameter mappings dust_plume_sub is called with: those of the model
\* loop and mappings with other dust production windows and nucleation
\* distances
PlumeStars ==
    PlumeParams
    \cup { [apep EXCEPT !.distance = 300 * FixOne, !.turn_on = v[1], !.turn_off = v[2],
                        !.gradual_turn = v[3], !.nuc_dist = v[4]] :
             v \in {-135 * FixOne, -60 * FixOne} \X {135 * FixOne, 20 * FixOne}
                    \X {0, 10 * FixOne} \X {0, 130 * FixOne} }

\* the values of comp_reduction the pipeline is called with in turn
comp_reductions == <<0, FixOne>>

\* the parameter mappings of the calls that differ in comp_reduction only,
\* the blur of width 0 among them
CompParams ==
    { [apep EXCEPT !.distance = 300 * FixOne, !.phase = v[1], !.comp_az = v[2],
                   !.comp_open = v[3], !.comp_incl = v[4], !.sigma = v[5]] :
        v \in {0, 300, 600} \X {0, 90 * FixOne, 180 * FixOne, 270 * FixOne}
               \X {90 * FixOne, 180 * FixOne} \X {45 * FixOne, 90 * FixOne}
               \X {2 * FixOne, 0} }

-----------------------------------------------------------------------------
(* The Kepler solver in 64-bit resolution                                  *)

\* jax_enable_x64: the solver runs on doubles, whose 16 significant digits
\* the thousandths above cannot hold.  A double is held here as DblLen limbs
\* of base DblBase, least significant first, DblFrac of them after the point:
\* the value is the sum of limb[i] * DblBase^(i - DblFrac - 1), a resolution
\* of 1e-16.  Every limb but the last is in 0..DblBase-1; the last carries
\* the sign
DblBase == 10000
DblFrac == 4
DblLen == 7

\* carries propagated from the least significant limb up
DblNorm(c) ==
    LET t1 == c[1]
        t2 == c[2] + t1 \div DblBase
        t3 == c[3] + t2 \div DblBase
        t4 == c[4] + t3 \div DblBase
        t5 == c[5] + t4 \div DblBase
        t6 == c[6] + t5 \div DblBase
        t7 == c[7] + t6 \div DblBase
    IN <<t1 % DblBase, t2 % DblBase, t3 % DblBase, t4 % DblBase, t5 % DblBase,
         t6 % DblBase, t7>>

DblOfInt(n) == DblNorm(<<0, 0, 0, 0, n, 0, 0>>)

DblAdd(a, b) ==
    DblNorm(<<a[1] + b[1], a[2] + b[2], a[3] + b[3], a[4] + b[4],
              a[5] + b[5], a[6] + b[6], a[7] + b[7]>>)

DblSub(a, b) ==
    DblNorm(<<a[1] - b[1], a[2] - b[2], a[3] - b[3], a[4] - b[4],
              a[5] - b[5], a[6] - b[6], a[7] - b[7]>>)

DblNeg(a) == DblSub(<<0, 0, 0, 0, 0, 0, 0>>, a)

\* a * n for a whole number n
DblScale(a, n) ==
    DblNorm(<<a[1] * n, a[2] * n, a[3] * n, a[4] * n, a[5] * n, a[6] * n, a[7] * n>>)

DblIsNeg(a) == a[DblLen] < 0

DblAbs(a) == IF DblIsNeg(a) THEN DblNeg(a) ELSE a

DblLessEq(a, b) == ~DblIsNeg(DblSub(b, a))

\* a * b, truncated at the resolution: the limb products of equal weight
\* summed, one column below the resolution kept for its carry
DblMul(a, b) ==
    DblNorm(<<a[1] * b[5] + a[2] * b[4] + a[3] * b[3] + a[4] * b[2] + a[5] * b[1]
                  + (a[1] * b[4] + a[2] * b[3] + a[3] * b[2] + a[4] * b[1]) \div DblBase,
              a[1] * b[6] + a[2] * b[5] + a[3] * b[4] + a[4] * b[3] + a[5] * b[2] + a[6] * b[1],
              a[1] * b[7] + a[2] * b[6] + a[3] * b[5] + a[4] * b[4] + a[5] * b[3] + a[6] * b[2]
                  + a[7] * b[1],
              a[2] * b[7] + a[3] * b[6] + a[4] * b[5] + a[5] * b[4] + a[6] * b[3] + a[7] * b[2],
              a[3] * b[7] + a[4] * b[6] + a[5] * b[5] + a[6] * b[4] + a[7] * b[3],
              a[4] * b[7] + a[5] * b[6] + a[6] * b[5] + a[7] * b[4],
              a[5] * b[7] + a[6] * b[6] + a[7] * b[5]
                  + DblBase * (a[6] * b[7] + a[7] * b[6])
                  + DblBase * DblBase * (a[7] * b[7])>>)

\* a / n for a whole number n > 0, limb by limb from the most significant
DblShortDiv(a, n) ==
    LET c7 == a[7]
        c6 == (c7 % n) * DblBase + a[6]
        c5 == (c6 % n) * DblBase + a[5]
        c4 == (c5 % n) * DblBase + a[4]
        c3 == (c4 % n) * DblBase + a[3]
        c2 == (c3 % n) * DblBase + a[2]
        c1 == (c2 % n) * DblBase + a[1]
    IN <<c1 \div n, c2 \div n, c3 \div n, c4 \div n, c5 \div n, c6 \div n, c7 \div n>>

\* the most significant limb that is not zero
RECURSIVE DblTop(_, _)
DblTop(a, i) == IF i = 1 \/ a[i] # 0 THEN i ELSE DblTop(a, i - 1)

\* Newton steps y <- y * (2 - d * y) towards 1 / d, until y settles
RECURSIVE DblRecipNewton(_, _, _)
DblRecipNewton(d, y, n) ==
    LET z == DblMul(y, DblSub(DblOfInt(2), DblMul(d, y)))
    IN IF n = 0 \/ z = y THEN y ELSE DblRecipNewton(d, z, n - 1)

\* 1 / d for d > 0: a first guess from the two leading limbs, then Newton
DblRecip(d) ==
    LET t == DblTop(d, DblLen)
        lead == d[t] * 100 + (IF t > 1 THEN d[t - 1] \div 100 ELSE 0)
        guess == 10 * (1000000000 \div lead)
    IN DblRecipNewton(d, DblNorm([i \in 1..DblLen |-> IF i = 2 * DblFrac - t THEN guess ELSE 0]), 6)

\* x / d for d > 0, the quotient corrected once by its remainder
DblDivPos(x, d) ==
    LET y == DblRecip(d)
        q == DblMul(x, y)
    IN DblAdd(q, DblMul(y, DblSub(x, DblMul(d, q))))

\* x / d
DblDiv(x, d) == IF DblIsNeg(d) THEN DblNeg(DblDivPos(x, DblNeg(d))) ELSE DblDivPos(x, d)

\* Newton steps y <- y * (3 - a * y^2) / 2 towards 1 / sqrt(a), until y settles
RECURSIVE DblRsqrtNewton(_, _, _)
DblRsqrtNewton(a, y, n) ==
    LET z == DblShortDiv(DblMul(y, DblSub(DblOfInt(3), DblMul(a, DblMul(y, y)))), 2)
    IN IF n = 0 \/ z = y THEN y ELSE DblRsqrtNewton(a, z, n - 1)

\* jnp.sqrt of a >= 1
DblSqrt(a) ==
    LET whole == a[5] + DblBase * a[6] + DblBase * DblBase * a[7]
        y == DblRsqrtNewton(a, DblNorm(<<0, 0, 100000000 \div (ISqrt(whole) + 1), 0, 0, 0, 0>>), 7)
        s == DblMul(a, y)
    IN DblAdd(s, DblShortDiv(DblMul(y, DblSub(a, DblMul(s, s))), 2))

\* Newton steps y <- y * (4 - c * y^3) / 3 towards 1 / cbrt(c), until y settles
RECURSIVE DblRcbrtNewton(_, _, _)
DblRcbrtNewton(c, y, n) ==
    LET z == DblShortDiv(DblMul(y, DblSub(DblOfInt(4), DblMul(c, DblMul(y, DblMul(y, y))))), 3)
    IN IF n = 0 \/ z = y THEN y ELSE DblRcbrtNewton(c, z, n - 1)

\* jnp.cbrt of 1 <= c < 2e6
DblCbrt(c) ==
    LET milli == (c[5] + DblBase * c[6]) * 1000 + c[4] \div 10
        t == ICbrtBetween(milli, 0, 1291) + 1
        y == DblRcbrtNewton(c, DblNorm(<<0, 0, 1000000000 \div t, 0, 0, 0, 0>>), 7)
    IN DblMul(c, DblMul(y, y))

\* the Taylor series of sine and cosine: the next term is the last one times
\* x^2 / (k * (k + 1)), taken with alternating sign until the sum settles
RECURSIVE DblSeries(_, _, _, _, _)
DblSeries(x2, term, k, sign, acc) ==
    LET next == DblShortDiv(DblMul(term, x2), k * (k + 1))
        sum == IF sign < 0 THEN DblSub(acc, next) ELSE DblAdd(acc, next)
    IN IF k > 40 \/ sum = acc THEN acc ELSE DblSeries(x2, next, k + 2, -sign, sum)

\* jnp.sin
DblSin(x) == DblSeries(DblMul(x, x), x, 2, -1, x)

\* jnp.cos
DblCos(x) == DblSeries(DblMul(x, x), DblOfInt(1), 1, -1, DblOfInt(1))

\* jnp.pi and 2 * jnp.pi
DblPi == <<7932, 3589, 9265, 1415, 3, 0, 0>>
DblTwoPi == DblScale(DblPi, 2)

\* x % m for m > 0
RECURSIVE DblMod(_, _)
DblMod(x, m) ==
    IF DblIsNeg(x) THEN DblMod(DblAdd(x, m), m)
    ELSE IF DblLessEq(m, x) THEN DblMod(DblSub(x, m), m)
    ELSE x

\* the eccentricities 0 .. 0.95 and the mean anomalies 2 pi k / KeplerSteps of
\* [0, 2 pi) the solver is called with
KeplerSteps == 16
KeplerEccs == {DblShortDiv(DblOfInt(n), 100) : n \in {0, 35, 73, 90, 95}}
KeplerAnoms == {DblShortDiv(DblScale(DblTwoPi, k), KeplerSteps) : k \in 0..(KeplerSteps - 1)}
KeplerInputs == [mean_anom : KeplerAnoms, ecc : KeplerEccs]

-----------------------------------------------------------------------------
VARIABLES
    pc,           \* the statement the program is at
    stardata,     \* the parameter mapping of the call
    ring_in,      \* the inputs of the dust_circle call
    circle,       \* the ring dust_circle returned
    side_width,   \* the bin width of the grid
    cloud,        \* the particle cloud [particles, weights]
    pending,      \* the particles an H.at[...].add(...) has yet to add
    H,            \* the image
    params,       \* the parameter mapping of the model loop
    year_index,   \* the position of the model loop in vlt_years
    year_params,  \* the copy of params of the current epoch
    obs           \* the clouds and images of the epochs already modelled

vars == <<pc, stardata, ring_in, circle, side_width, cloud, pending, H,
          params, year_index, year_params, obs>>

ringVars == <<ring_in, circle>>

histVars == <<side_width, cloud, pending, H>>

modelVars == <<params, year_index, year_params, obs>>

\* the variables of the parts of the program that are not running
NoRing == ring_in = <<>> /\ circle = <<>>

NoHist == side_width = 0 /\ cloud = <<>> /\ pending = {} /\ H = <<>>

NoModel == params = <<>> /\ year_index = 0 /\ year_params = <<>> /\ obs = <<>>

-----------------------------------------------------------------------------
(* One call of dust_circle                                                 *)

\* a dust_circle call about to be made
InitRing ==
    /\ pc = "ring_call"
    /\ stardata \in RingStars
    /\ ring_in \in RingInputs
    /\ circle = <<>>
    /\ NoHist
    /\ NoModel

\* the dust_circle call returns
RingDustCircle ==
    /\ pc = "ring_call"
    /\ circle' = dust_circle(ring_in.i, ring_in.nu, stardata, theta_of(n_points),
                             ring_in.direction, ring_in.width)
    /\ pc' = "ring_done"
    /\ UNCHANGED <<stardata, ring_in, histVars, modelVars>>

NextRing == RingDustCircle

SpecRing == InitRing /\ [][NextRing]_vars

-----------------------------------------------------------------------------
(* One call of smooth_histogram2d_w_bins followed by add_stars             *)

\* the four H.at[...].add(...) statements, in program order
ScatterStages == <<"add_main", "add_horizontal", "add_vertical", "add_corner">>

\* the compositor called with a cloud, a grid and image parameters
InitHist ==
    /\ pc = ScatterStages[1]
    /\ stardata \in HistStars
    /\ side_width \in SideWidths
    /\ cloud \in Clouds(side_width)
    /\ pending = DOMAIN cloud.particles
    /\ H = zeros
    /\ NoRing
    /\ NoModel

\* an H.at[...].add(...) statement adds the update of one more particle; the
\* order in which it takes the particles is not fixed
HistScatterAdd ==
    /\ \E q \in DOMAIN ScatterStages :
          /\ pc = ScatterStages[q]
          /\ \E j \in pending :
                /\ H' = at_add(H, quadrants(cloud.particles[j], cloud.weights[j],
                                            side_width)[q])
                /\ pending' = pending \ {j}
    /\ UNCHANGED <<pc, stardata, side_width, cloud, ringVars, modelVars>>

\* an H.at[...].add(...) statement is complete: the next statement starts
HistNextScatter ==
    /\ pending = {}
    /\ \E q \in DOMAIN ScatterStages :
          /\ pc = ScatterStages[q]
          /\ pc' = IF q < Len(ScatterStages) THEN ScatterStages[q + 1] ELSE "convolve"
          /\ pending' = IF q < Len(ScatterStages) THEN DOMAIN cloud.particles ELSE {}
    /\ UNCHANGED <<stardata, side_width, cloud, H, ringVars, modelVars>>

\* H = H.T; H = signal.convolve(H, gxy, mode='same')
HistConvolve ==
    /\ pc = "convolve"
    /\ H' = convolve(transpose(H), stardata.sigma)
    /\ pc' = "normalise"
    /\ UNCHANGED <<stardata, side_width, cloud, pending, ringVars, modelVars>>

\* H /= jnp.max(H)
HistNormalise ==
    /\ pc = "normalise"
    /\ H' = normalise(H)
    /\ pc' = "clip"
    /\ UNCHANGED <<stardata, side_width, cloud, pending, ringVars, modelVars>>

\* H = jnp.minimum(H, histmax); H /= jnp.max(H)
HistClip ==
    /\ pc = "clip"
    /\ H' = clip(H, stardata)
    /\ pc' = "power"
    /\ UNCHANGED <<stardata, side_width, cloud, pending, ringVars, modelVars>>

\* H = H ** lum_power; H /= jnp.max(H); return X, Y, H
HistPower ==
    /\ pc = "power"
    /\ H' = power(H, stardata)
    /\ pc' = "add_stars"
    /\ UNCHANGED <<stardata, side_width, cloud, pending, ringVars, modelVars>>

\* H = add_stars(xbins, ybins, H, stardata)
HistAddStars ==
    /\ pc = "add_stars"
    /\ H' = add_stars(H, stardata, side_width)
    /\ pc' = "hist_done"
    /\ UNCHANGED <<stardata, side_width, cloud, pending, ringVars, modelVars>>

NextHist ==
    \/ HistScatterAdd
    \/ HistNextScatter
    \/ HistConvolve
    \/ HistNormalise
    \/ HistClip
    \/ HistPower
    \/ HistAddStars

SpecHist == InitHist /\ [][NextHist]_vars

-----------------------------------------------------------------------------
(* The model loop of apep_model: one cloud and one image per epoch         *)

\* the loop about to start on sampled parameters
InitModel ==
    /\ pc = "model_copy"
    /\ params \in PlumeParams
    /\ year_index = 1
    /\ year_params = <<>>
    /\ obs = <<>>
    /\ stardata = <<>>
    /\ side_width = PlumeSideWidth
    /\ cloud = <<>>
    /\ pending = {}
    /\ H = <<>>
    /\ NoRing

\* the phase shift applied to the mapping itself, without the copy
ModelShiftInPlace ==
    /\ pc = "model_copy"
    /\ year_index <= Len(vlt_years)
    /\ params' = [params EXCEPT
                     !.phase = @ - Div((2024 - vlt_years[year_index]) * FixOne,
                                       params.period)]
    /\ year_params' = params'
    /\ pc' = "model_plume"
    /\ UNCHANGED <<stardata, year_index, obs, histVars, ringVars>>

\* year_params = params.copy(); year_params['phase'] -= (2024 - year) / period
ModelCopyParams ==
    /\ pc = "model_copy"
    /\ year_index <= Len(vlt_years)
    /\ year_params' = [params EXCEPT
                          !.phase = @ - Div((2024 - vlt_years[year_index]) * FixOne,
                                            params.period)]
    /\ pc' = "model_plume"
    /\ UNCHANGED <<stardata, params, year_index, obs, histVars, ringVars>>

\* samp_particles, samp_weights = gm.dust_plume(year_params)
ModelDustPlume ==
    /\ pc = "model_plume"
    /\ cloud' = dust_plume(year_params)
    /\ pc' = "model_histogram"
    /\ UNCHANGED <<stardata, side_width, pending, H, modelVars, ringVars>>

\* _, _, samp_H = smooth_histogram2d_w_bins(samp_particles, samp_weights,
\* year_params, xbins, ybins): the call binds stardata and runs the four
\* H.at[...].add(...) statements; the statements that follow are those of
\* HistConvolve to HistPower
ModelHistogram ==
    /\ pc = "model_histogram"
    /\ stardata' = year_params
    /\ H' = bin_particles(cloud, side_width)
    /\ pc' = "convolve"
    /\ UNCHANGED <<side_width, cloud, pending, modelVars, ringVars>>

\* samp_H = gm.add_stars(xbins, ybins, samp_H, year_params); the epoch is
\* handed to the likelihood and the loop goes on to the next year
ModelAddStars ==
    /\ pc = "add_stars"
    /\ H' = add_stars(H, year_params, side_width)
    /\ obs' = Append(obs, [year |-> vlt_years[year_index],
                           phase |-> year_params.phase,
                           particles |-> cloud.particles,
                           weights |-> cloud.weights,
                           H |-> H'])
    /\ year_index' = year_index + 1
    /\ pc' = "model_copy"
    /\ UNCHANGED <<stardata, side_width, cloud, pending, params, year_params, ringVars>>

NextModel ==
    \/ ModelCopyParams
    \/ ModelDustPlume
    \/ ModelHistogram
    \/ HistConvolve
    \/ HistNormalise
    \/ HistClip
    \/ HistPower
    \/ ModelAddStars

SpecModel == InitModel /\ [][NextModel]_vars

-----------------------------------------------------------------------------
(* The pipeline called on a parameter mapping and again with comp_reduction *)
(* raised, everything else held fixed                                       *)

\* the first call about to be made
InitComp ==
    /\ pc = "comp_copy"
    /\ params \in CompParams
    /\ year_index = 1
    /\ year_params = <<>>
    /\ obs = <<>>
    /\ stardata = <<>>
    /\ side_width = PlumeSideWidth
    /\ cloud = <<>>
    /\ pending = {}
    /\ H = <<>>
    /\ NoRing

\* the mapping of the next call: a copy with its own comp_reduction
CompCopyParams ==
    /\ pc = "comp_copy"
    /\ year_index <= Len(comp_reductions)
    /\ year_params' = [params EXCEPT !.comp_reduction = comp_reductions[year_index]]
    /\ pc' = "model_plume"
    /\ UNCHANGED <<stardata, params, year_index, obs, histVars, ringVars>>

\* H = add_stars(xbins, ybins, H, stardata); the call's cloud and image are kept
CompAddStars ==
    /\ pc = "add_stars"
    /\ H' = add_stars(H, year_params, side_width)
    /\ obs' = Append(obs, [comp_reduction |-> year_params.comp_reduction,
                           particles |-> cloud.particles,
                           weights |-> cloud.weights,
                           H |-> H'])
    /\ year_index' = year_index + 1
    /\ pc' = "comp_copy"
    /\ UNCHANGED <<stardata, side_width, cloud, pending, params, year_params, ringVars>>

NextComp ==
    \/ CompCopyParams
    \/ ModelDustPlume
    \/ ModelHistogram
    \/ HistConvolve
    \/ HistNormalise
    \/ HistClip
    \/ HistPower
    \/ CompAddStars

SpecComp == InitComp /\ [][NextComp]_vars

-----------------------------------------------------------------------------
(* The batched map of dust_plume_sub: the rings of a plume, generated in    *)
(* any order                                                                *)

\* the indices of the rings of a plume
RingIndices == 0..(n_t * n_orbits - 1)

\* dust_plume_sub called: no ring generated yet
InitPlume ==
    /\ pc = "plume_rings"
    /\ stardata \in PlumeStars
    /\ pending = RingIndices
    /\ circle = <<>>
    /\ cloud = <<>>
    /\ ring_in = <<>>
    /\ side_width = 0
    /\ H = <<>>
    /\ NoModel

\* a ring generated with the number of rings generated before it in the
\* place of its own index
PlumeRingByArrival ==
    /\ pc = "plume_rings"
    /\ \E i \in pending :
          /\ circle' = [k \in DOMAIN circle \cup {i} |->
                           IF k = i
                              THEN ring_of_plume(Cardinality(DOMAIN circle), stardata)
                              ELSE circle[k]]
          /\ pending' = pending \ {i}
    /\ UNCHANGED <<pc, stardata, ring_in, side_width, cloud, H, modelVars>>

\* one more ring of the batch is generated, from its own index, and put at
\* its index; the order in which the batch takes the rings is not fixed
PlumeRing ==
    /\ pc = "plume_rings"
    /\ \E i \in pending :
          /\ circle' = [k \in DOMAIN circle \cup {i} |->
                           IF k = i THEN ring_of_plume(i, stardata) ELSE circle[k]]
          /\ pending' = pending \ {i}
    /\ UNCHANGED <<pc, stardata, ring_in, side_width, cloud, H, modelVars>>

\* the rings are flattened into the cloud and the cloud is returned
PlumeFlatten ==
    /\ pc = "plume_rings"
    /\ pending = {}
    /\ cloud' = flatten([r \in 1..(n_t * n_orbits) |-> circle[r - 1]], n_points)
    /\ pc' = "plume_done"
    /\ UNCHANGED <<stardata, ring_in, circle, side_width, pending, H, modelVars>>

NextPlume == PlumeRing \/ PlumeFlatten

SpecPlume == InitPlume /\ [][NextPlume]_vars

-----------------------------------------------------------------------------
(* One call of a hand-defined derivative rule                              *)

\* zero_safe_sqrt_jvp or zero_safe_arctan2_jvp about to be called
InitJvp ==
    /\ pc \in {"sqrt_jvp_call", "arctan2_jvp_call"}
    /\ ring_in \in JvpInputs
    /\ pc = "sqrt_jvp_call" => ring_in.y = 0 /\ ring_in.y_dot = 0
    /\ circle = <<>>
    /\ stardata = <<>>
    /\ NoHist
    /\ NoModel

\* zero_safe_sqrt_jvp returns primal_out, tangent_out
JvpSqrt ==
    /\ pc = "sqrt_jvp_call"
    /\ circle' = zero_safe_sqrt_jvp(ring_in.x, ring_in.x_dot)
    /\ pc' = "sqrt_jvp_done"
    /\ UNCHANGED <<stardata, ring_in, histVars, modelVars>>

\* zero_safe_arctan2_jvp returns primal_out, tangent_out
JvpArctan2 ==
    /\ pc = "arctan2_jvp_call"
    /\ circle' = zero_safe_arctan2_jvp(ring_in.x, ring_in.y, ring_in.x_dot, ring_in.y_dot)
    /\ pc' = "arctan2_jvp_done"
    /\ UNCHANGED <<stardata, ring_in, histVars, modelVars>>

NextJvp == JvpSqrt \/ JvpArctan2

SpecJvp == InitJvp /\ [][NextJvp]_vars

-----------------------------------------------------------------------------
(* One call of euler_angles                                                *)

\* an euler_angles call about to be made
InitEuler ==
    /\ pc = "euler_call"
    /\ ring_in \in EulerInputs
    /\ circle = <<>>
    /\ stardata = <<>>
    /\ NoHist
    /\ NoModel

\* the euler_angles call returns the rotated coordinates
EulerRotate ==
    /\ pc = "euler_call"
    /\ circle' = euler_angles(ring_in.coords, ring_in.Omega, ring_in.i, ring_in.w)
    /\ pc' = "euler_done"
    /\ UNCHANGED <<stardata, ring_in, histVars, modelVars>>

NextEuler == EulerRotate

SpecEuler == InitEuler /\ [][NextEuler]_vars

-----------------------------------------------------------------------------
(* One call of the Kepler solver                                           *)

\* kepler(mean_anom, ecc) about to run kepler_solver_impl; circle holds the
\* local variables of the call as they are assigned
InitKepler ==
    /\ pc = "kepler_fold"
    /\ ring_in \in KeplerInputs
    /\ circle = <<>>
    /\ stardata = <<>>
    /\ NoHist
    /\ NoModel

KeplerStep(from, locals, to) ==
    /\ pc = from
    /\ circle' = locals @@ circle
    /\ pc' = to
    /\ UNCHANGED <<stardata, ring_in, histVars, modelVars>>

\* kepler_solver_impl: mean_anom % (2 pi), folded onto [0, pi]
KeplerFold ==
    LET reduced == DblMod(ring_in.mean_anom, DblTwoPi)
        high == ~DblLessEq(reduced, DblPi)
    IN KeplerStep("kepler_fold",
                  [high |-> high,
                   mean_anom |-> IF high THEN DblSub(DblTwoPi, reduced) ELSE reduced],
                  "starter_ome")

\* kepler_starter: ome, M2
StarterOme ==
    KeplerStep("starter_ome",
               [ome |-> DblSub(DblOfInt(1), ring_in.ecc),
                M2 |-> DblMul(circle.mean_anom, circle.mean_anom)],
               "starter_alpha")

\* kepler_starter: alpha
StarterAlpha ==
    LET span == DblSub(DblPi, DblDiv(DblOfInt(6), DblPi))
    IN KeplerStep("starter_alpha",
                  [alpha |-> DblAdd(DblDiv(DblScale(DblPi, 3), span),
                                    DblDiv(DblMul(DblDiv(DblShortDiv(DblOfInt(16), 10), span),
                                                  DblSub(DblPi, circle.mean_anom)),
                                           DblAdd(DblOfInt(1), ring_in.ecc)))],
                  "starter_d")

\* kepler_starter: d, alphad
StarterD ==
    LET d == DblAdd(DblScale(circle.ome, 3), DblMul(circle.alpha, ring_in.ecc))
    IN KeplerStep("starter_d", [d |-> d, alphad |-> DblMul(circle.alpha, d)], "starter_r")

\* kepler_starter: r, q, q2
StarterR ==
    LET q == DblSub(DblMul(DblScale(circle.alphad, 2), circle.ome), circle.M2)
    IN KeplerStep("starter_r",
                  [r |-> DblMul(DblAdd(DblMul(DblScale(circle.alphad, 3),
                                              DblSub(circle.d, circle.ome)),
                                       circle.M2),
                                circle.mean_anom),
                   q |-> q,
                   q2 |-> DblMul(q, q)],
                  "starter_w")

\* kepler_starter: w
StarterW ==
    LET root == DblCbrt(DblAdd(DblAbs(circle.r),
                               DblSqrt(DblAdd(DblMul(circle.q2, circle.q),
                                              DblMul(circle.r, circle.r)))))
    IN KeplerStep("starter_w", [w |-> DblMul(root, root)], "starter_return")

\* kepler_starter returns the first guess of the eccentric anomaly
StarterReturn ==
    KeplerStep("starter_return",
               [starter |->
                    DblDiv(DblAdd(DblDiv(DblMul(DblScale(circle.r, 2), circle.w),
                                         DblAdd(DblAdd(DblMul(circle.w, circle.w),
                                                       DblMul(circle.w, circle.q)),
                                                circle.q2)),
                                  circle.mean_anom),
                           circle.d)],
               "refiner_sE")

\* kepler_refiner: ome, sE, cE
RefinerSE ==
    KeplerStep("refiner_sE",
               [sE |-> DblSub(circle.starter, DblSin(circle.starter)),
                cE |-> DblSub(DblOfInt(1), DblCos(circle.starter))],
               "refiner_f")

\* kepler_refiner: f_0, f_1, f_2, f_3
RefinerF ==
    LET f_1 == DblAdd(DblMul(ring_in.ecc, circle.cE), circle.ome)
    IN KeplerStep("refiner_f",
                  [f_0 |-> DblSub(DblAdd(DblMul(ring_in.ecc, circle.sE),
                                         DblMul(circle.starter, circle.ome)),
                                  circle.mean_anom),
                   f_1 |-> f_1,
                   f_2 |-> DblMul(ring_in.ecc, DblSub(circle.starter, circle.sE)),
                   f_3 |-> DblSub(DblOfInt(1), f_1)],
                  "refiner_d_3")

\* kepler_refiner: d_3
RefinerD3 ==
    KeplerStep("refiner_d_3",
               [d_3 |-> DblDiv(DblNeg(circle.f_0),
                               DblSub(circle.f_1,
                                      DblDiv(DblMul(DblShortDiv(circle.f_0, 2), circle.f_2),
                                             circle.f_1)))],
               "refiner_d_4")

\* kepler_refiner: d_4
RefinerD4 ==
    KeplerStep("refiner_d_4",
               [d_4 |-> DblDiv(DblNeg(circle.f_0),
                               DblAdd(DblAdd(circle.f_1,
                                             DblMul(DblShortDiv(circle.d_3, 2), circle.f_2)),
                                      DblShortDiv(DblMul(DblMul(circle.d_3, circle.d_3),
                                                         circle.f_3), 6)))],
               "refiner_dE")

\* kepler_refiner: d_42, dE
RefinerDE ==
    LET d_42 == DblMul(circle.d_4, circle.d_4)
    IN KeplerStep("refiner_dE",
                  [dE |-> DblDiv(DblNeg(circle.f_0),
                                 DblSub(DblAdd(DblAdd(circle.f_1,
                                                      DblMul(DblShortDiv(circle.d_4, 2),
                                                             circle.f_2)),
                                               DblShortDiv(DblMul(DblMul(circle.d_4, circle.d_4),
                                                                  circle.f_3), 6)),
                                        DblShortDiv(DblMul(DblMul(d_42, circle.d_4),
                                                           circle.f_2), 24)))],
                  "refiner_return")

\* kepler_refiner returning its argument, the step dE left out
RefinerReturnUnrefined ==
    KeplerStep("refiner_return", [ecc_anom |-> circle.starter], "kepler_rewrap")

\* kepler_refiner returns ecc_anom + dE
RefinerReturn ==
    KeplerStep("refiner_return", [ecc_anom |-> DblAdd(circle.starter, circle.dE)],
               "kepler_rewrap")

\* kepler_solver_impl undoes the fold: kepler returns E
KeplerRewrap ==
    KeplerStep("kepler_rewrap",
               [E |-> IF circle.high THEN DblSub(DblTwoPi, circle.ecc_anom)
                                     ELSE circle.ecc_anom],
               "kepler_done")

NextKepler ==
    \/ KeplerFold
    \/ StarterOme
    \/ StarterAlpha
    \/ StarterD
    \/ StarterR
    \/ StarterW
    \/ StarterReturn
    \/ RefinerSE
    \/ RefinerF
    \/ RefinerD3
    \/ RefinerD4
    \/ RefinerDE
    \/ RefinerReturn
    \/ KeplerRewrap

SpecKepler == InitKepler /\ [][NextKepler]_vars

-----------------------------------------------------------------------------
(* The normalise, clip and power stage of smooth_histogram2d_base, applied  *)
(* to an image and then to its own output                                   *)

\* the bin values the blurred images are made of: empty, dim, one, brighter
\* than one, and negative
StageValues == {0, 300, FixOne, 2500, -500}

\* the blurred images the stage is entered with: three values laid out along
\* the diagonals of the grid
StageImages ==
    { [b \in Bins |-> v[((b[1] + b[2]) % 3) + 1]] : v \in StageValues \X StageValues \X StageValues }

\* the image parameters: histmax = 1 and lum_power = 1, a clipping histmax,
\* and a squaring lum_power
StageStars ==
    { [apep EXCEPT !.histmax = v[1], !.lum_power = v[2]] :
        v \in { <<FixOne, FixOne>>, <<500, FixOne>>, <<FixOne, 2 * FixOne>> } }

\* the blurred image H about to be normalised; cloud keeps the image the
\* stage was entered with, obs the images it has returned
InitStage ==
    /\ pc = "normalise"
    /\ stardata \in StageStars
    /\ H \in StageImages
    /\ cloud = H
    /\ side_width = 0
    /\ pending = {}
    /\ obs = <<>>
    /\ params = <<>> /\ year_index = 0 /\ year_params = <<>>
    /\ NoRing

\* H /= jnp.max(H)
StageNormalise ==
    /\ pc = "normalise"
    /\ H' = normalise(H)
    /\ pc' = "clip"
    /\ UNCHANGED <<stardata, side_width, cloud, pending, ringVars, modelVars>>

\* H = jnp.minimum(H, histmax); H /= jnp.max(H)
StageClip ==
    /\ pc = "clip"
    /\ H' = clip(H, stardata)
    /\ pc' = "power"
    /\ UNCHANGED <<stardata, side_width, cloud, pending, ringVars, modelVars>>

\* H = H ** lum_power; H /= jnp.max(H); return H.  The returned image is
\* handed to the stage once more
StagePower ==
    /\ pc = "power"
    /\ H' = power(H, stardata)
    /\ obs' = Append(obs, H')
    /\ pc' = IF obs = <<>> THEN "normalise" ELSE "stage_done"
    /\ UNCHANGED <<stardata, side_width, cloud, pending, ringVars,
                   params, year_index, year_params>>

NextStage == StageNormalise \/ StageClip \/ StagePower

SpecStage == InitStage /\ [][NextStage]_vars

-----------------------------------------------------------------------------
(* dust_plume_sub from the vmap to the return, array by array              *)

\* the arrays of dust_plume_sub about to be filled: circle is the vmap's
\* particles, ring_in the star positions and shock_start, cloud the flat
\* particles and weights
InitShock ==
    /\ pc = "vmap"
    /\ stardata \in PlumeStars
    /\ circle = <<>>
    /\ ring_in = <<>>
    /\ cloud = <<>>
    /\ side_width = 0
    /\ pending = {}
    /\ H = <<>>
    /\ NoModel

\* particles = vmap(lambda i_nu: dust_circle(...))((jnp.arange(n_time), true_anomaly))
ShockVmap ==
    /\ pc = "vmap"
    /\ circle' = [r \in 1..(n_t * n_orbits) |-> circle_of_plume(r - 1, stardata)]
    /\ ring_in' = [positions2 |-> [r \in 1..(n_t * n_orbits) |->
                                      positions_of_plume(r - 1, stardata)[2]]]
    /\ pc' = "ravel"
    /\ UNCHANGED <<stardata, side_width, cloud, pending, H, modelVars>>

\* weights = particles[:, 3, :].flatten(); particles = the three ravelled rows
ShockRavel ==
    /\ pc = "ravel"
    /\ cloud' = [weights |-> ravel([r \in DOMAIN circle |->
                                       [j \in DOMAIN circle[r] |-> circle[r][j][4]]],
                                   n_points),
                 particles |-> ravel([r \in DOMAIN circle |->
                                         [j \in DOMAIN circle[r] |->
                                             <<circle[r][j][1], circle[r][j][2],
                                               circle[r][j][3]>>]],
                                     n_points)]
    /\ pc' = "shock_start"
    /\ UNCHANGED <<stardata, ring_in, circle, side_width, pending, H, modelVars>>

\* shock_start tiled ring after ring in the place of jnp.repeat
ShockTile ==
    /\ pc = "shock_start"
    /\ ring_in' = [positions2 |-> ring_in.positions2,
                   shock_start |-> tile(ring_in.positions2, n_points)]
    /\ pc' = "add"
    /\ UNCHANGED <<stardata, circle, side_width, cloud, pending, H, modelVars>>

\* shock_start = jnp.repeat(positions2, len(theta), axis=-1)
ShockRepeat ==
    /\ pc = "shock_start"
    /\ ring_in' = [positions2 |-> ring_in.positions2,
                   shock_start |-> repeat(ring_in.positions2, n_points)]
    /\ pc' = "add"
    /\ UNCHANGED <<stardata, circle, side_width, cloud, pending, H, modelVars>>

\* particles += shock_start
ShockAdd ==
    /\ pc = "add"
    /\ cloud' = [weights |-> cloud.weights,
                 particles |-> [m \in DOMAIN cloud.particles |->
                                   <<cloud.particles[m][1] + ring_in.shock_start[m][1],
                                     cloud.particles[m][2] + ring_in.shock_start[m][2],
                                     cloud.particles[m][3] + ring_in.shock_start[m][3]>>]]
    /\ pc' = "euler"
    /\ UNCHANGED <<stardata, ring_in, circle, side_width, pending, H, modelVars>>

\* particles = euler_angles(...); return the arc seconds and the weights
ShockProject ==
    /\ pc = "euler"
    /\ cloud' = [weights |-> cloud.weights,
                 particles |-> [m \in DOMAIN cloud.particles |->
                                   project(cloud.particles[m], stardata)]]
    /\ pc' = "plume_done"
    /\ UNCHANGED <<stardata, ring_in, circle, side_width, pending, H, modelVars>>

NextShock == ShockVmap \/ ShockRavel \/ ShockRepeat \/ ShockAdd \/ ShockProject

SpecShock == InitShock /\ [][NextShock]_vars

-----------------------------------------------------------------------------
(* One call of spiral_grid or of spiral_grid_w_bins                        *)

\* the coordinates of the particles handed to spiral_grid: on an axis, at
\* the origin, and off both axes
SpiralCoordinates == {-FixOne, 0, FixOne}

\* the clouds [particles, weights] handed to spiral_grid
SpiralClouds ==
    { [particles |-> [j \in DOMAIN c |-> <<c[j][1], c[j][2], 0>>],
       weights |-> [j \in DOMAIN c |-> 640]] :
        c \in UNION { [1..n -> SpiralCoordinates \X SpiralCoordinates] :
                        n \in 1..MaxParticles } }

\* spiral_grid(particles, weights, stardata) or spiral_grid_w_bins(particles,
\* weights, stardata, xbins, ybins) called; obs keeps the masked weights
InitSpiral ==
    /\ pc \in {"spiral_grid", "spiral_grid_w_bins"}
    /\ stardata \in HistStars
    /\ side_width = FixOne
    /\ cloud \in SpiralClouds
    /\ pending = {}
    /\ H = <<>>
    /\ obs = <<>>
    /\ params = <<>> /\ year_index = 0 /\ year_params = <<>>
    /\ NoRing

\* the weights zeroed at the origin only, in the place of line 916 / 953
SpiralMaskOrigin ==
    /\ pc \in {"spiral_grid", "spiral_grid_w_bins"}
    /\ obs' = spiral_weights_origin(cloud.particles, cloud.weights)
    /\ pc' = IF pc = "spiral_grid" THEN "histogram2d" ELSE "histogram2d_w_bins"
    /\ UNCHANGED <<stardata, side_width, cloud, pending, H, ringVars,
                   params, year_index, year_params>>

\* weights = jnp.where((x != 0) & (y != 0), weights, 0)
SpiralMask ==
    /\ pc \in {"spiral_grid", "spiral_grid_w_bins"}
    /\ obs' = spiral_weights(cloud.particles, cloud.weights)
    /\ pc' = IF pc = "spiral_grid" THEN "histogram2d" ELSE "histogram2d_w_bins"
    /\ UNCHANGED <<stardata, side_width, cloud, pending, H, ringVars,
                   params, year_index, year_params>>

\* spiral_grid: H = jnp.histogram2d(x, y, bins=im_size, weights=weights); H = H.T
SpiralHistogram ==
    /\ pc = "histogram2d"
    /\ H' = transpose(histogram2d(cloud.particles, obs,
                                  histogram_range({cloud.particles[j][1] :
                                                      j \in DOMAIN cloud.particles}),
                                  histogram_range({cloud.particles[j][2] :
                                                      j \in DOMAIN cloud.particles})))
    /\ pc' = "spiral_normalise"
    /\ UNCHANGED <<stardata, side_width, cloud, pending, ringVars, modelVars>>

\* spiral_grid_w_bins: H = jnp.histogram2d(x, y, bins=[xbins, ybins], weights=weights); H = H.T
SpiralHistogramWBins ==
    /\ pc = "histogram2d_w_bins"
    /\ H' = transpose(histogram2d(cloud.particles, obs,
                                  <<min_edge(side_width), max_edge(side_width)>>,
                                  <<min_edge(side_width), max_edge(side_width)>>))
    /\ pc' = "spiral_normalise"
    /\ UNCHANGED <<stardata, side_width, cloud, pending, ringVars, modelVars>>

\* H /= jnp.max(H); H = jnp.minimum(H, histmax)
SpiralClip ==
    /\ pc = "spiral_normalise"
    /\ H' = [b \in Bins |-> FMin(normalise(H)[b], stardata.histmax)]
    /\ pc' = "spiral_convolve"
    /\ UNCHANGED <<stardata, side_width, cloud, pending, ringVars, modelVars>>

\* H = signal.convolve(H, gxy, mode='same'); H /= jnp.max(H)
SpiralConvolve ==
    /\ pc = "spiral_convolve"
    /\ H' = normalise(convolve(H, stardata.sigma))
    /\ pc' = "spiral_power"
    /\ UNCHANGED <<stardata, side_width, cloud, pending, ringVars, modelVars>>

\* H = H ** lum_power; return X, Y, H
SpiralPower ==
    /\ pc = "spiral_power"
    /\ H' = powered(H, stardata)
    /\ pc' = "spiral_done"
    /\ UNCHANGED <<stardata, side_width, cloud, pending, ringVars, modelVars>>

NextSpiral ==
    \/ SpiralMask
    \/ SpiralHistogram
    \/ SpiralHistogramWBins
    \/ SpiralClip
    \/ SpiralConvolve
    \/ SpiralPower

SpecSpiral == InitSpiral /\ [][NextSpiral]_vars

-----------------------------------------------------------------------------
(* One call of smooth_histogram2d: the grid is fitted to the cloud         *)

\* the positions <<x, y>> of the particles handed to smooth_histogram2d: at
\* the origin, on the border of the cloud's extent and inside it.  They are
\* whole multiples of 0.36, which put the edges of the fitted grid on
\* thousandths
FovPositions ==
    { <<0, 0>>, <<-720, 0>>, <<720, 720>>, <<360, -720>>, <<-360, 360>>, <<0, 360>> }

\* the clouds [particles, weights] handed to smooth_histogram2d
FovClouds ==
    { [particles |-> [j \in DOMAIN c |-> <<c[j][1], c[j][2], 0>>],
       weights |-> [j \in DOMAIN c |-> 640]] :
        c \in UNION { [1..n -> FovPositions] : n \in 1..MaxParticles } }

\* smooth_histogram2d(particles, weights, stardata) called; ring_in will
\* hold the bound, circle the four updates of every particle
InitFov ==
    /\ pc = "smooth_histogram2d"
    /\ stardata \in HistStars
    /\ cloud \in FovClouds
    /\ side_width = 0
    /\ pending = {}
    /\ H = <<>>
    /\ NoRing
    /\ NoModel

\* xbound, ybound, bound, xedges, yedges; smooth_histogram2d_base: side_width
FovEdges ==
    /\ pc = "smooth_histogram2d"
    /\ ring_in' = [bound |-> fov_bound(cloud.particles)]
    /\ side_width' = fov_side_width(fov_bound(cloud.particles))
    /\ pc' = "smooth_histogram2d_base"
    /\ UNCHANGED <<stardata, circle, cloud, pending, H, modelVars>>

\* the indices, the checks, the quadrants and the four H.at[...].add(...)
FovBin ==
    /\ pc = "smooth_histogram2d_base"
    /\ side_width > 0
    /\ circle' = [j \in DOMAIN cloud.particles |->
                     quadrants(cloud.particles[j], cloud.weights[j], side_width)]
    /\ H' = bin_particles(cloud, side_width)
    /\ pc' = "convolve"
    /\ UNCHANGED <<stardata, ring_in, side_width, cloud, pending, modelVars>>

\* the same statements on a grid of width 0: xpos / side_width is 0 / 0 for
\* every particle, and the bins the NaN indices refer to receive NaN
FovBinDegenerate ==
    /\ pc = "smooth_histogram2d_base"
    /\ side_width = 0
    /\ \E xi \in nan_as_int : \E yi \in nan_as_int :
          /\ circle' = [j \in DOMAIN cloud.particles |-> nan_quadrants(xi, yi)]
          /\ H' = [b \in Bins |->
                      IF \E q \in 1..4 :
                            b = <<at_index(nan_quadrants(xi, yi)[q][1]),
                                  at_index(nan_quadrants(xi, yi)[q][2])>>
                         THEN NaN ELSE 0]
    /\ pc' = "convolve"
    /\ UNCHANGED <<stardata, ring_in, side_width, cloud, pending, modelVars>>

NextFov ==
    \/ FovEdges
    \/ FovBin
    \/ FovBinDegenerate
    \/ HistConvolve
    \/ HistNormalise
    \/ HistClip
    \/ HistPower

SpecFov == InitFov /\ [][NextFov]_vars

-----------------------------------------------------------------------------
(* The ages of the rings in dust_plume_sub, in floating point: a value is   *)
(* an integer count of 1 / FloatOne and carries Mantissa significant bits   *)

\* the significant bits of a float
Mantissa == 6

\* 1.0
FloatOne == 4096

\* the number of bits of a natural number
RECURSIVE bit_length(_)
bit_length(m) == IF m = 0 THEN 0 ELSE 1 + bit_length(m \div 2)

RECURSIVE Pow2(_)
Pow2(k) == IF k = 0 THEN 1 ELSE 2 * Pow2(k - 1)

\* the spacing of the floats at a magnitude m
float_ulp(m) == Pow2(Max2(0, bit_length(m) - Mantissa))

\* m / d for naturals, rounded to nearest, ties to even
round_half_even(m, d) ==
    LET q == m \div d
        r == m % d
    IN IF 2 * r > d \/ (2 * r = d /\ q % 2 = 1) THEN q + 1 ELSE q

\* the float nearest to v
float_round(v) ==
    LET m == Abs(v)
        u == float_ulp(m)
    IN Sign(v) * round_half_even(m, u) * u

\* a + b, a - b
float_add(a, b) == float_round(a + b)

float_sub(a, b) == float_round(a - b)

\* a * b: the exact product, rounded once
float_mul(a, b) ==
    LET m == Abs(a) * Abs(b)
        u == float_ulp(m \div FloatOne)
    IN Sign(a) * Sign(b) * round_half_even(m, u * FloatOne) * u

\* a / b, b # 0: the exact quotient, rounded once
float_div(a, b) ==
    LET m == Abs(a) * FloatOne
        d == Abs(b)
        u == float_ulp(m \div d)
    IN Sign(a) * Sign(b) * round_half_even(m, u * d) * u

\* jnp.remainder(x, y), y > 0: lax.rem, which is exact and has the sign of
\* x, plus y when it is negative
float_remainder(x, y) ==
    LET trunc_mod == Sign(x) * (Abs(x) % y)
    IN IF trunc_mod < 0 THEN float_add(trunc_mod, y) ELSE trunc_mod

\* 2. * jnp.pi
float_two_pi == float_round(25736)

\* the largest number of shells
MaxOrbits == 2

\* the values of linspace(turn_on_mean_anom, turn_off_mean_anom, n_t) the
\* ages are computed for: -2, 0, 0.5, 1, 3
AgeAnomalies == {float_round(v) : v \in {-8192, 0, 2048, 4096, 12288}}

\* the phases: 0, 0.082, 0.25, 0.5, 1.082, -0.25, -0.918
AgePhases == {float_round(v) : v \in {0, 336, 1024, 2048, 4432, -1024, -3760}}

\* the inputs of the age of one ring: its place in the schedule, the
\* parameters, and the shell it belongs to
AgeInputs ==
    { r \in [mean_anom : AgeAnomalies, phase : AgePhases, n_orbits : 1..MaxOrbits,
             shell : 0..(MaxOrbits - 1), period_s : {FloatOne, 2 * FloatOne}] :
        r.shell < r.n_orbits }

InitAge ==
    /\ pc = "phase_radians"
    /\ ring_in \in AgeInputs
    /\ circle = <<>>
    /\ stardata = <<>>
    /\ NoHist
    /\ NoModel

AgeStep(from, locals, to) ==
    /\ pc = from
    /\ circle' = locals @@ circle
    /\ pc' = to
    /\ UNCHANGED <<stardata, ring_in, histVars, modelVars>>

\* phase_radians = 2. * jnp.pi * stardata['phase']
AgePhaseRadians ==
    AgeStep("phase_radians",
            [phase_radians |-> float_mul(float_two_pi, ring_in.phase)],
            "wrap")

\* non_dimensional_times % (2. * jnp.pi)
AgeWrap ==
    AgeStep("wrap",
            [wrapped |-> float_remainder(ring_in.mean_anom, float_two_pi)],
            "fraction")

\* (... - phase_radians) / (2. * jnp.pi)
AgeFraction ==
    AgeStep("fraction",
            [fraction |-> float_div(float_sub(circle.wrapped, circle.phase_radians),
                                    float_two_pi)],
            "mod_one")

\* non_dimensional_times = non_dimensional_times % 1.
AgeModOne ==
    AgeStep("mod_one",
            [non_dimensional_time |-> float_remainder(circle.fraction, FloatOne)],
            "shell")

\* non_dimensional_times = shell_times + non_dimensional_times
AgeShell ==
    AgeStep("shell",
            [shell_time |-> float_add(ring_in.shell * FloatOne,
                                      circle.non_dimensional_time)],
            "age")

\* period_s * (n_orbits - non_dimensional_times)
AgeAge ==
    AgeStep("age",
            [age |-> float_mul(ring_in.period_s,
                               float_sub(ring_in.n_orbits * FloatOne, circle.shell_time))],
            "age_done")

NextAge ==
    \/ AgePhaseRadians
    \/ AgeWrap
    \/ AgeFraction
    \/ AgeModOne
    \/ AgeShell
    \/ AgeAge

SpecAge == InitAge /\ [][NextAge]_vars

-----------------------------------------------------------------------------
(* The ring schedule of dust_plume_sub, for two parameter mappings that     *)
(* differ in phase only: circle holds the arrays of the call with stardata, *)
(* obs those of the call with params                                        *)

\* the phases of the second mapping
SchedulePhases == {0, 300, 990, 1300, -250}

\* mean_anomalies[i] as first assigned, from the phase
mean_anomaly_first(i, n_time, shells, turn_on, turn_off, phase) ==
    (Mul(linspace(phase, shells * FixOne + phase, n_time, i) % FixOne, turn_off - turn_on)
     + turn_on) % TwoPi

\* the arrays of the first assignment of mean_anomalies
schedule_first(mapping, shells) ==
    [mean_anomalies |->
        [r \in 1..(n_t * shells) |->
            mean_anomaly_first(r - 1, n_t * shells, shells, turn_on_mean_anom(mapping),
                               turn_off_mean_anom(mapping), mapping.phase)]]

\* mean_anomalies = jnp.tile((linspace(0., delta_M, n_t) + turn_on_mean_anom) % (2 pi), n_orbits)
schedule_tiled(mapping, shells) ==
    [mean_anomalies |->
        [r \in 1..(n_t * shells) |->
            mean_anomaly_of(r - 1, n_t, turn_on_mean_anom(mapping),
                            turn_off_mean_anom(mapping))]]

\* E and true_anomaly of the mean anomalies
schedule_anomalies(mapping, mean_anomalies) ==
    LET E == [r \in DOMAIN mean_anomalies |->
                 kepler(mean_anomalies[r], mapping.eccentricity)]
    IN [E |-> E,
        true_anomaly |-> [r \in DOMAIN E |->
                             true_from_eccentric_anomaly(E[r], mapping.eccentricity)]]

\* plume_direction = positions1 - positions2
schedule_direction(mapping, E, true_anomaly) ==
    LET stars(r) == star_positions(E[r], true_anomaly[r], period_s_of(mapping), mapping)
    IN [plume_direction |->
           [r \in DOMAIN E |-> <<stars(r)[1][1] - stars(r)[2][1],
                                 stars(r)[1][2] - stars(r)[2][2],
                                 stars(r)[1][3] - stars(r)[2][3]>>]]

\* widths of the rings of a mapping
schedule_widths(mapping, shells) ==
    [widths |->
        [r \in 1..(n_t * shells) |->
            width_of(ring_age(r - 1, n_t, shells, period_s_of(mapping),
                              non_dimensional_time_of(r - 1, n_t,
                                                      turn_on_mean_anom(mapping),
                                                      turn_off_mean_anom(mapping),
                                                      mapping.phase)),
                     mapping)]]

InitSchedule ==
    /\ pc = "mean_anomalies"
    /\ stardata \in { m \in PlumeStars : m.period > 0 }
    /\ params \in { [stardata EXCEPT !.phase = p] : p \in SchedulePhases \ {stardata.phase} }
    /\ ring_in \in [n_orbits : 1..MaxOrbits]
    /\ circle = <<>>
    /\ obs = <<>>
    /\ year_index = 0
    /\ year_params = <<>>
    /\ NoHist

ScheduleStep(from, locals, others, to) ==
    /\ pc = from
    /\ circle' = locals @@ circle
    /\ obs' = others @@ obs
    /\ pc' = to
    /\ UNCHANGED <<stardata, params, ring_in, year_index, year_params, histVars>>

\* mean_anomalies = ((linspace(phase, n_orbits + phase, len(times)) % 1) * delta_M + turn_on_mean_anom) % (2 pi)
ScheduleFirst ==
    ScheduleStep("mean_anomalies",
                 schedule_first(stardata, ring_in.n_orbits),
                 schedule_first(params, ring_in.n_orbits),
                 "tile")

\* the second assignment left out: the first one stays
ScheduleKeepFirst == ScheduleStep("tile", <<>>, <<>>, "kepler")

\* mean_anomalies = (linspace(0., delta_M, n_t) + turn_on_mean_anom) % (2 pi), tiled
ScheduleTile ==
    ScheduleStep("tile",
                 schedule_tiled(stardata, ring_in.n_orbits),
                 schedule_tiled(params, ring_in.n_orbits),
                 "kepler")

\* E = kepler(mean_anomalies, ecc); true_anomaly = true_from_eccentric_anomaly(E, ecc)
ScheduleKepler ==
    ScheduleStep("kepler",
                 schedule_anomalies(stardata, circle.mean_anomalies),
                 schedule_anomalies(params, obs.mean_anomalies),
                 "positions")

\* positions1, positions2 and plume_direction
SchedulePositions ==
    ScheduleStep("positions",
                 schedule_direction(stardata, circle.E, circle.true_anomaly),
                 schedule_direction(params, obs.E, obs.true_anomaly),
                 "widths")

\* shell_times, non_dimensional_times and widths
ScheduleWidths ==
    ScheduleStep("widths",
                 schedule_widths(stardata, ring_in.n_orbits),
                 schedule_widths(params, ring_in.n_orbits),
                 "schedule_done")

NextSchedule ==
    \/ ScheduleFirst
    \/ ScheduleTile
    \/ ScheduleKepler
    \/ SchedulePositions
    \/ ScheduleWidths

SpecSchedule == InitSchedule /\ [][NextSchedule]_vars

-----------------------------------------------------------------------------
(* One call of spin_orbit_mult                                              *)

\* the parameter mappings spin_orbit_mult is called with: polar wind speed
\* and opening angle equal to and different from the equatorial ones, spin
\* axes on and off the orbital axis, and anisotropy curves of several
\* steepnesses and powers
SpinStars ==
    { [apep EXCEPT !.windspeed1 = v[1], !.windspeed_polar = v[2],
                   !.open_angle_polar = v[3], !.spin_inc = v[4], !.spin_Omega = v[5],
                   !.aniso_vel_mult = v[6][1], !.aniso_OA_mult = v[6][2],
                   !.aniso_vel_power = v[7][1], !.aniso_OA_power = v[7][2]] :
        v \in {900, 2400} \X {900, 2400} \X {90 * FixOne, 45 * FixOne}
               \X {0, 2 * FixOne, 30 * FixOne} \X {0, 60 * FixOne}
               \X { <<-FixOne, 0>>, <<0, -FixOne>> }
               \X { <<0, FixOne>>, <<2 * FixOne, FixOne>> } }

\* the unit vectors spin_orbit_mult is handed as direction
SpinDirections == { <<FixOne, 0, 0>>, <<0, FixOne, 0>>, <<-707, 707, 0>> }

\* the true anomalies spin_orbit_mult is called with
SpinAnomalies == {0, 1000, HalfPi, Pi, 5000}

InitSpin ==
    /\ pc = "spin_orbit_mult"
    /\ stardata \in SpinStars
    /\ ring_in \in [nu : SpinAnomalies, direction : SpinDirections]
    /\ circle = <<>>
    /\ NoHist
    /\ NoModel

\* oa_mult, v_mult = spin_orbit_mult(nu, direction, stardata)
SpinOrbitMult ==
    /\ pc = "spin_orbit_mult"
    /\ circle' = [mult |-> spin_orbit_mult(ring_in.nu, ring_in.direction, stardata)]
    /\ pc' = "spin_done"
    /\ UNCHANGED <<stardata, ring_in, histVars, modelVars>>

NextSpin == SpinOrbitMult

SpecSpin == InitSpin /\ [][NextSpin]_vars

-----------------------------------------------------------------------------
(* Properties of the ring generator                                        *)

RingDone == pc = "ring_done"

RingWeights == {circle[j][4] : j \in 1..Len(circle)}

RingTransfNu == transf_nu_of(ring_in.nu)

RingGate == Mul(turned_on_of(ring_in.nu, stardata), turned_off_of(ring_in.nu, stardata))

RingResidual == residual_of(ring_in.nu, stardata)

RingOutsideWindow ==
    \/ RingTransfNu <= deg2rad(stardata.turn_on)
    \/ RingTransfNu >= deg2rad(stardata.turn_off)

RingNucleationDistance == Mul(stardata.nuc_dist, AU2km)

\* C3: every particle weight dust_circle returns is >= 0 and <= 1, for every
\* parameter mapping.
C3_WeightsInUnitInterval ==
    RingDone => \A w \in RingWeights : w >= 0 /\ w <= FixOne

\* C6 as stated: whenever gradual_turn >= 1 degree the residual is 0 and a
\* ring outside [turn_on, turn_off] has weight exactly 0.
C6_HatchAtOneDegree ==
    RingDone /\ stardata.gradual_turn >= FixOne =>
        /\ RingResidual = 0
        /\ RingOutsideWindow => RingWeights = {0}

\* C6 amended: whenever deg2rad(gradual_turn) >= 1 (gradual_turn of about
\* 57.3 degrees or more) the residual is 0 and a ring outside
\* [turn_on, turn_off] has weight exactly 0; the residual can be non-zero
\* only when deg2rad(gradual_turn) < 1.
C6_HatchAtOneRadian ==
    RingDone =>
        /\ deg2rad(stardata.gradual_turn) >= FixOne =>
              /\ RingResidual = 0
              /\ RingOutsideWindow => RingWeights = {0}
        /\ RingResidual # 0 => deg2rad(stardata.gradual_turn) < FixOne

C6_Witness ==
    /\ RingDone
    /\ deg2rad(stardata.gradual_turn) >= FixOne
    /\ RingOutsideWindow
    /\ ring_in.width >= RingNucleationDistance
    /\ residual_unswitched(ring_in.nu, stardata) > 0
    /\ RingWeights = {0}

RingAtOrbMin == rad2deg(RingTransfNu) + 180 * FixOne = stardata.orb_min

\* C7 as stated: the orbital multiplier is forced to 1 when orb_sd >= 1, and
\* the Gaussian dip (orb_amp at orb_min) is applied when orb_sd < 1.
C7_DisabledAtOrAboveOne ==
    RingDone =>
        /\ stardata.orb_sd >= FixOne => prop_orb_of(ring_in.nu, stardata) = FixOne
        /\ stardata.orb_sd < FixOne /\ RingAtOrbMin =>
              prop_orb_of(ring_in.nu, stardata) = Max2(Min2(stardata.orb_amp, FixOne), 0)

\* C7 amended: the orbital multiplier is forced to 1 when orb_sd < 1 (for
\* every true anomaly, every orb_min and every orb_amp >= 0), and the
\* Gaussian dip is applied when orb_sd >= 1: at orb_min the multiplier is
\* orb_amp clamped to [0, 1].
C7_DisabledBelowOne ==
    RingDone =>
        /\ stardata.orb_sd < FixOne /\ stardata.orb_amp >= 0 =>
              prop_orb_of(ring_in.nu, stardata) = FixOne
        /\ stardata.orb_sd >= FixOne /\ RingAtOrbMin =>
              prop_orb_of(ring_in.nu, stardata) = Max2(Min2(stardata.orb_amp, FixOne), 0)

C7_Witness ==
    /\ RingDone
    /\ stardata.orb_sd >= FixOne
    /\ RingAtOrbMin
    /\ stardata.orb_amp = 500
    /\ prop_orb_of(ring_in.nu, stardata) = 500
    /\ \E w \in RingWeights : w > 0 /\ w <= 500

C9_HardGate ==
    RingDone =>
        /\ RingGate \in {0, FixOne}
        /\ RingGate = FixOne <=>
              /\ deg2rad(stardata.turn_on) < RingTransfNu
              /\ RingTransfNu < deg2rad(stardata.turn_off)
        /\ RingGate = FixOne => RingResidual = 0
        /\ RingGate + RingResidual <= FixOne

C9_Witness ==
    /\ RingDone
    /\ RingTransfNu = deg2rad(stardata.turn_off)
    /\ RingGate = 0
    /\ RingResidual = FixOne

\* C10: every particle of a ring whose width is strictly below
\* nuc_dist * AU2km has weight exactly 0, the residual included; a ring whose
\* width equals the nucleation distance counts as nucleated.
C10_Nucleation ==
    RingDone =>
        /\ ring_in.width < RingNucleationDistance => RingWeights = {0}
        /\ ring_in.width = RingNucleationDistance =>
              /\ nucleated_of(ring_in.width, stardata) = FixOne
              /\ gate_weight_of(ring_in.nu, ring_in.width, stardata)
                    = RingGate + RingResidual

C10_Witness ==
    /\ RingDone
    /\ ring_in.width = RingNucleationDistance
    /\ \E w \in RingWeights : w > 0

C10_WitnessBelow ==
    /\ RingDone
    /\ ring_in.width < RingNucleationDistance
    /\ RingResidual > 0
    /\ RingWeights = {0}

-----------------------------------------------------------------------------
(* Properties of the image compositor                                      *)

\* the number of the H.at[...].add(...) statement in progress (5: all done)
HistStage ==
    IF pc = "convolve" THEN Len(ScatterStages) + 1
    ELSE CHOOSE q \in DOMAIN ScatterStages : pc = ScatterStages[q]

HistScattering == pc \in {ScatterStages[q] : q \in DOMAIN ScatterStages} \cup {"convolve"}

\* the updates <<particle, quadrant>> added to the image so far
HistApplied ==
    { u \in (DOMAIN cloud.particles) \X (DOMAIN ScatterStages) :
        \/ u[2] < HistStage
        \/ u[2] = HistStage /\ u[1] \notin pending }

HistUpdate(u) == quadrants(cloud.particles[u[1]], cloud.weights[u[1]], side_width)[u[2]]

HistTargets(u, b) ==
    at_index(HistUpdate(u)[1]) = b[1] /\ at_index(HistUpdate(u)[2]) = b[2]

\* the updates added to the image so far, each with its indices and value
HistUpdates == { <<u, HistUpdate(u)>> : u \in HistApplied }

\* the sum of the values of those of a set of updates that refer to bin b
RECURSIVE HistBinSum(_, _)
HistBinSum(S, b) ==
    IF S = {} THEN 0
    ELSE LET value(p) ==
                 IF at_index(p[2][1]) = b[1] /\ at_index(p[2][2]) = b[2] THEN p[2][3]
                 ELSE 0
             with(p) == value(p) + HistBinSum(S \ {p}, b)
         IN with(CHOOSE p \in S : TRUE)

\* the sum of an image over its first k bins
RECURSIVE ImageSum(_, _)
ImageSum(image, k) ==
    IF k = 0 THEN 0 ELSE image[bin_at(k)] + ImageSum(image, k - 1)

RECURSIVE WeightSum(_, _)
WeightSum(weights, n) ==
    IF n = 0 THEN 0 ELSE weights[n] + WeightSum(weights, n - 1)

HistInsideGrid(particle) ==
    /\ particle[1] >= min_edge(side_width) /\ particle[1] < max_edge(side_width)
    /\ particle[2] >= min_edge(side_width) /\ particle[2] < max_edge(side_width)

\* C1: for every cloud whose particles all lie inside the grid, the sum of
\* the binned image over all bins (before blur and normalisation) equals the
\* sum of the particle weights, for every bin width.
C1_WeightConserving ==
    pc = "convolve" /\ (\A j \in DOMAIN cloud.particles : HistInsideGrid(cloud.particles[j]))
        => ImageSum(H, ImSize * ImSize) = WeightSum(cloud.weights, Len(cloud.weights))

HistBinnedZero == image_max(bin_particles(cloud, side_width)) = 0

\* C2: when the binned image has maximum 0, every max-normalisation divides
\* by 1 instead of 0, so the image stays all-zero and finite through the
\* pipeline and after add_stars.
C2_ZeroMaximumGuarded ==
    pc \in {"clip", "power", "add_stars", "hist_done"} /\ HistBinnedZero
        => \A b \in Bins : H[b] = 0

HistPermuted(perm) ==
    [particles |-> [j \in DOMAIN cloud.particles |-> cloud.particles[perm[j]]],
     weights |-> [j \in DOMAIN cloud.weights |-> cloud.weights[perm[j]]]]

\* C5: accumulation is a sum and order-independent: at every point of the
\* four scatter-add statements each bin holds the sum of all the updates
\* added to it so far, whatever the order they were added in, and the binned
\* image is the same for every permutation of the particle list.
C5_SumInAnyOrder ==
    HistScattering =>
        /\ LET summed(updates) == \A b \in Bins : H[b] = HistBinSum(updates, b)
           IN summed(HistUpdates)
        /\ pc = "convolve" =>
              \A perm \in Permutations(DOMAIN cloud.particles) :
                  bin_particles(HistPermuted(perm), side_width) = H

C5_Witness ==
    /\ pc = "convolve"
    /\ \E b \in Bins :
          \E u, v \in HistApplied :
              /\ u[1] # v[1]
              /\ HistTargets(u, b) /\ HistTargets(v, b)
              /\ HistUpdate(u)[3] > 0 /\ HistUpdate(v)[3] > 0
              /\ HistUpdate(u)[3] # HistUpdate(v)[3]
              /\ H[b] >= HistUpdate(u)[3] + HistUpdate(v)[3]

-----------------------------------------------------------------------------
(* Properties of the model loop                                            *)

\* C4: two runs whose phases differ by a whole number (p and p + 1, negative
\* phases included) yield the same particle positions, the same weights and
\* the same image.
C4_PhaseWrapInvariant ==
    \A m, n \in DOMAIN obs :
        (obs[m].phase - obs[n].phase) % FixOne = 0 =>
            /\ obs[m].particles = obs[n].particles
            /\ obs[m].weights = obs[n].weights
            /\ obs[m].H = obs[n].H

C4_Witness ==
    \E m, n, k \in DOMAIN obs :
        /\ obs[n].phase < 0
        /\ obs[m].phase = obs[n].phase + FixOne
        /\ obs[m].particles = obs[n].particles
        /\ \E j \in DOMAIN obs[m].weights : obs[m].weights[j] > 0
        /\ \E b \in Bins : obs[m].H[b] = FixOne
        /\ obs[k].particles # obs[m].particles

-----------------------------------------------------------------------------
(* Properties of the companion photodissociation                           *)

RingPoint(j) == <<circle[j][1], circle[j][2], circle[j][3]>>

RingAngularDist(j) == angular_dist_of(RingPoint(j), stardata)

RingMultiplier(j) == companion_dissociate_of(RingPoint(j), stardata)

RingCompHalfTheta == deg2rad(stardata.comp_open \div 2)

RingInsideCone(j) ==
    ~IsNaN(RingAngularDist(j)) /\ RingAngularDist(j) < RingCompHalfTheta

\* the weight of particle j of the ring when the companion multiplier is 1
RingUndissociated(j) ==
    Mul(gate_weight_of(ring_in.nu, ring_in.width, stardata),
        Mul(prop_orb_of(ring_in.nu, stardata),
            prop_az_of(shifted_theta_of(theta_of(n_points)[j], ring_in.i), stardata)))

\* C11: a particle whose angular separation from the companion direction is
\* at least the companion half-opening angle has multiplier exactly 1 (its
\* weight is the weight without the companion), and a particle inside the
\* cone has a multiplier, and so a weight, that is never negative, for every
\* comp_reduction, those above 1 included.
C11_CompanionMultiplier ==
    RingDone =>
        \A j \in 1..Len(circle) :
            /\ ~IsNaN(RingAngularDist(j)) /\ RingAngularDist(j) >= RingCompHalfTheta
                   => /\ RingMultiplier(j) = FixOne
                      /\ circle[j][4] = RingUndissociated(j)
            /\ RingInsideCone(j)
                   => /\ RingMultiplier(j) >= 0
                      /\ circle[j][4] >= 0

\* a ring with comp_reduction > 1 that has a particle deep enough in the cone
\* for the floor to act, on a ring that carries weight, and a particle
\* outside the cone
C11_Witness ==
    /\ RingDone
    /\ stardata.comp_reduction > FixOne
    /\ RingUndissociated(1) > 0
    /\ \E j \in 1..Len(circle) :
          /\ RingInsideCone(j)
          /\ RingUndissociated(j) > 0
          /\ companion_dissociate_unfloored(RingPoint(j), stardata) < 0
          /\ circle[j][4] = 0
    /\ \E j \in 1..Len(circle) :
          /\ ~IsNaN(RingAngularDist(j))
          /\ RingAngularDist(j) >= RingCompHalfTheta
          /\ circle[j][4] > 0

-----------------------------------------------------------------------------
(* Properties of the two calls that differ in comp_reduction               *)

CompBothDone == Len(obs) = Len(comp_reductions)

\* the ring and the place in its ring of particle m of the cloud
CompRing(m) == (m - 1) \div n_points

CompTheta(m) == theta_of(n_points)[((m - 1) % n_points) + 1]

CompEccentricAnomaly(i) ==
    kepler(mean_anomaly_of(i, n_t, turn_on_mean_anom(params), turn_off_mean_anom(params)),
           params.eccentricity)

CompWidth(i) ==
    width_of(ring_age(i, n_t, n_orbits, period_s_of(params),
                      non_dimensional_time_of(i, n_t, turn_on_mean_anom(params),
                                              turn_off_mean_anom(params), params.phase)),
             params)

CompDirection(E) ==
    LET between(stars) == <<stars[1][1] - stars[2][1], stars[1][2] - stars[2][2],
                            stars[1][3] - stars[2][3]>>
    IN between(star_positions(E, true_from_eccentric_anomaly(E, params.eccentricity),
                              period_s_of(params), params))

\* the particle in the frame of its ring, where the cone is tested
CompPointAt(m, E) ==
    circle_point(CompRing(m), true_from_eccentric_anomaly(E, params.eccentricity),
                 params, CompTheta(m), CompDirection(E), CompWidth(CompRing(m)))

CompAngularDist(m) ==
    angular_dist_of(CompPointAt(m, CompEccentricAnomaly(CompRing(m))), params)

CompInsideCone(m) ==
    LET inside(angular_dist) ==
            ~IsNaN(angular_dist) /\ angular_dist < deg2rad(params.comp_open \div 2)
    IN inside(CompAngularDist(m))

\* the image of a call before the blur and the first division by its maximum
CompBinned(n) ==
    bin_particles([particles |-> obs[n].particles, weights |-> obs[n].weights],
                  side_width)

\* C12 as stated: raising comp_reduction from 0 to 1 makes no bin of the
\* final image brighter (no region inside the cone gets brighter, every
\* region outside the cone keeps its brightness).
C12_FinalImageNeverBrighter ==
    CompBothDone => \A b \in Bins : obs[2].H[b] <= obs[1].H[b]

\* C12 amended: raising comp_reduction from 0 to 1 moves no particle, never
\* increases the weight of a particle inside the cone, leaves the weight of
\* every particle outside the cone unchanged, and makes no bin of the image
\* brighter before the image is divided by its maximum; the final image is
\* relative to its own maximum and carries no such guarantee.
C12_WeightsNeverHeavier ==
    CompBothDone =>
        /\ obs[2].particles = obs[1].particles
        /\ \A m \in DOMAIN obs[1].weights :
              /\ obs[2].weights[m] <= obs[1].weights[m]
              /\ ~CompInsideCone(m) => obs[2].weights[m] = obs[1].weights[m]
        /\ LET dimmer(before, after) == \A b \in Bins : after[b] <= before[b]
           IN dimmer(CompBinned(1), CompBinned(2))

\* both calls made: a particle inside the cone lost weight, a particle
\* outside the cone carries weight, a bin was dimmed before the division and
\* a bin of the final image got brighter
C12_Witness ==
    /\ CompBothDone
    /\ \E m \in DOMAIN obs[1].weights :
          CompInsideCone(m) /\ obs[2].weights[m] < obs[1].weights[m]
    /\ \E m \in DOMAIN obs[1].weights :
          ~CompInsideCone(m) /\ obs[2].weights[m] > 0
    /\ LET dimmed(before, after) == \E b \in Bins : after[b] < before[b]
       IN dimmed(CompBinned(1), CompBinned(2))
    /\ \E b \in Bins : obs[2].H[b] > obs[1].H[b]

-----------------------------------------------------------------------------
(* Properties of the divisors                                              *)

\* the image handed to the blur
CompBeforeBlur == bin_particles(cloud, side_width)

\* C13: every parameter used as a divisor is floored to a small positive
\* constant before the division, so with the blur sigma set to 0 the blur of
\* an image of finite values divides by no zero and yields finite values.
C13_DivisorsFloored ==
    pc = "normalise" =>
        LET finite(image) == \A b \in Bins : ~IsNaN(image[b])
        IN finite(CompBeforeBlur) => finite(H)

-----------------------------------------------------------------------------
(* Properties of out-of-range parameters                                   *)

\* C14: a dust_plume call with eccentricity >= 1 or with a negative period
\* ends in an invalid-parameter outcome: it returns no particle cloud.
C14_InvalidParameterReported ==
    /\ pc = "model_histogram"
    /\ year_params.eccentricity >= FixOne \/ year_params.period < 0
    => cloud = <<>>

-----------------------------------------------------------------------------
(* Properties of the parameter mapping                                     *)

\* the phase of the epoch of a year: base phase - (2024 - year) / period
EpochPhase(year) == params.phase - Div((2024 - year) * FixOne, params.period)

\* C15: no step of the model loop modifies the base mapping; dust_plume, the
\* compositor and add_stars leave the mapping they are passed as it is; the
\* copy of an epoch differs from the base mapping in its phase only, which is
\* base phase - (2024 - year) / period, and so is the phase of every epoch
\* modelled so far (shifts never accumulate).
C15_ParamsNeverModified ==
    [][/\ params' = params
       /\ pc # "model_copy" => year_params' = year_params
       /\ pc = "model_copy" =>
              year_params' = [params EXCEPT !.phase = EpochPhase(vlt_years[year_index])]
       /\ pc' \in {"convolve", "normalise", "clip", "power", "add_stars"} =>
              stardata' = year_params
       /\ \A n \in DOMAIN obs' : obs'[n].phase = EpochPhase(obs'[n].year)]_vars

\* three epochs modelled, with three different shifts of a base phase that
\* is still the one the loop started with
C15_Witness ==
    /\ Len(obs) >= 3
    /\ params \in PlumeParams
    /\ obs[1].phase # obs[2].phase
    /\ obs[2].phase # obs[3].phase
    /\ obs[3].phase = params.phase - Div(6 * FixOne, params.period)
    /\ obs[3].phase # obs[2].phase - Div(6 * FixOne, params.period)
    /\ year_params.phase # params.phase

-----------------------------------------------------------------------------
(* Properties of the batch of rings                                        *)

PlumeOtherWindow(star) ==
    star.turn_on # apep.turn_on \/ star.turn_off # apep.turn_off

\* C17: the cloud dust_plume_sub returns has exactly (rings per orbit) x
\* (particles per ring) x (number of shells) particles and one weight per
\* particle, for every parameter mapping, whatever turn_on, turn_off and the
\* phase are and however many weights are zero.
C17_CloudSize ==
    pc = "plume_done" =>
        /\ Len(cloud.particles) = n_t * n_points * n_orbits
        /\ Len(cloud.weights) = n_t * n_points * n_orbits
        /\ DOMAIN cloud.weights = DOMAIN cloud.particles
        /\ \A m \in DOMAIN cloud.particles : Len(cloud.particles[m]) = 3

\* a cloud of full size returned for a narrowed window of dust production,
\* with particles of weight zero next to particles that carry weight
C17_Witness ==
    /\ pc = "plume_done"
    /\ PlumeOtherWindow(stardata)
    /\ Len(cloud.weights) = n_t * n_points * n_orbits
    /\ \E m \in DOMAIN cloud.weights : cloud.weights[m] = 0
    /\ \E m \in DOMAIN cloud.weights : cloud.weights[m] > 0

-----------------------------------------------------------------------------
(* Properties of the normalisation                                         *)

HasPositiveMax(image) ==
    LET positive(m) == ~IsNaN(m) /\ m > 0 IN positive(image_max(image))

\* C18: the final normalisation of smooth_histogram2d_base, and the one of
\* add_stars, leave an image whose maximum is exactly 1 whenever the image
\* they divide has a positive maximum.
C18_MaxIsOne ==
    [][/\ pc = "power" /\ HasPositiveMax(powered(H, stardata))
          => image_max(H') = FixOne
       /\ pc = "add_stars" /\ HasPositiveMax(overlay_stars(H, stardata, side_width))
          => image_max(H') = FixOne]_vars

\* an image returned by add_stars with maximum 1 and a dimmer bin, for a
\* clip ceiling and a luminosity power that changed the image on the way
C18_Witness ==
    /\ pc = "hist_done"
    /\ stardata.histmax < FixOne
    /\ stardata.lum_power > FixOne
    /\ image_max(H) = FixOne
    /\ \E b \in Bins : H[b] > 0 /\ H[b] < FixOne

-----------------------------------------------------------------------------
(* Properties of the Euler rotation                                        *)

\* the number of quarter turns of an angle that is a multiple of 90 degrees
QuarterTurns(angle) == (angle \div (90 * FixOne)) % 4

IsQuarterTurn(angle) == angle % (90 * FixOne) = 0

\* a rotation about z by k quarter turns clockwise: Z(-90 degrees) k times
RECURSIVE QuarterZ(_, _)
QuarterZ(k, v) == IF k = 0 THEN v ELSE QuarterZ(k - 1, <<v[2], -v[1], v[3]>>)

\* a rotation about x by k quarter turns clockwise: X(-90 degrees) k times
RECURSIVE QuarterX(_, _)
QuarterX(k, v) == IF k = 0 THEN v ELSE QuarterX(k - 1, <<v[1], v[3], -v[2]>>)

\* C19: euler_angles applies Z(-Omega) . X(-i) . Z(-omega): the rotation by
\* the argument of periapsis about z acts on the coordinates first, then the
\* inclination about x, then the ascending node about z, each with the
\* negated angle; with all three angles 0 the coordinates come back unchanged.
C19_RotationOrder ==
    pc = "euler_done" =>
        /\ circle = rotate_z(deg2rad(-ring_in.Omega),
                              rotate_x(deg2rad(-ring_in.i),
                                       rotate_z(deg2rad(-ring_in.w), ring_in.coords)))
        /\ IsQuarterTurn(ring_in.Omega) /\ IsQuarterTurn(ring_in.i)
              /\ IsQuarterTurn(ring_in.w)
              => circle = QuarterZ(QuarterTurns(ring_in.Omega),
                                   QuarterX(QuarterTurns(ring_in.i),
                                            QuarterZ(QuarterTurns(ring_in.w),
                                                     ring_in.coords)))
        /\ ring_in.Omega = 0 /\ ring_in.i = 0 /\ ring_in.w = 0
              => circle = ring_in.coords

\* a call with three different quarter turns whose result is neither the
\* one of the opposite order nor the one of the angles not negated
C19_Witness ==
    /\ pc = "euler_done"
    /\ ring_in.Omega = 90 * FixOne
    /\ ring_in.i = 270 * FixOne
    /\ ring_in.w = 180 * FixOne
    /\ circle # QuarterZ(QuarterTurns(ring_in.w),
                          QuarterX(QuarterTurns(ring_in.i),
                                   QuarterZ(QuarterTurns(ring_in.Omega),
                                            ring_in.coords)))
    /\ circle # QuarterZ(QuarterTurns(-ring_in.Omega),
                          QuarterX(QuarterTurns(-ring_in.i),
                                   QuarterZ(QuarterTurns(-ring_in.w),
                                            ring_in.coords)))

-----------------------------------------------------------------------------
(* Properties of the hand-defined derivatives                              *)

\* both arguments of arctan2 are within 10 * eps of 0
JvpNearOrigin ==
    /\ ring_in.x > -tol /\ ring_in.x < tol
    /\ ring_in.y > -tol /\ ring_in.y < tol

\* C20 as stated: the derivative rules return the tangent 0 whenever the
\* input is within epsilon of the singular point: zero_safe_sqrt_jvp for
\* every x <= 10 * eps and every input tangent, zero_safe_arctan2_jvp whenever
\* both arguments are within 10 * eps of 0.
C20_ZeroTangent ==
    /\ pc = "sqrt_jvp_done" /\ ring_in.x <= tol => circle.tangent.mant = 0
    /\ pc = "arctan2_jvp_done" /\ JvpNearOrigin => circle.tangent.mant = 0

\* C20 amended: within epsilon of the singular point the derivative rules
\* put 1 in the place of the vanishing denominator, so the tangent is finite
\* (never NaN) but not 0: zero_safe_sqrt_jvp returns 0.5 * x_dot for every
\* x <= 10 * eps, and zero_safe_arctan2_jvp returns y * x_dot - x * y_dot when
\* both arguments are within 10 * eps of 0, which is 0 at the origin itself.
C20_FiniteTangent ==
    /\ pc = "sqrt_jvp_done" /\ ring_in.x <= tol =>
          circle.tangent = [mant |-> RDiv(ring_in.x_dot, 2), exp |-> 0]
    /\ pc = "arctan2_jvp_done" /\ JvpNearOrigin =>
          /\ circle.tangent = [mant |-> ring_in.y * ring_in.x_dot
                                         - ring_in.x * ring_in.y_dot,
                               exp |-> EpsExp]
          /\ ring_in.x = 0 /\ ring_in.y = 0 => circle.tangent.mant = 0

\* zero_safe_sqrt_jvp called at 0 with input tangent 1: the tangent is 0.5
C20_Witness ==
    /\ pc = "sqrt_jvp_done"
    /\ ring_in.x = 0
    /\ ring_in.x_dot = FixOne
    /\ circle.primal.mant = 0
    /\ circle.tangent = [mant |-> 500, exp |-> 0]

-----------------------------------------------------------------------------
(* Properties of the Kepler solver                                         *)

\* |(E - ecc * sin E) - M| of a finished call
KeplerResidual(ecc_anom) ==
    DblAbs(DblSub(DblSub(ecc_anom, DblMul(ring_in.ecc, DblSin(ecc_anom))), ring_in.mean_anom))

\* 1e-10
KeplerTolerance == <<0, 100, 0, 0, 0, 0, 0>>

\* C21: for every eccentricity in [0, 0.95] and every mean anomaly in
\* [0, 2 pi), the eccentric anomaly E the solver returns puts E - e sin E
\* within 1e-10 rad of the mean anomaly
C21_ResidualWithinTolerance ==
    pc = "kepler_done" => DblLessEq(KeplerResidual(circle.E), KeplerTolerance)

\* a call at eccentricity 0.95 on the folded half of the orbit has returned,
\* and the starter alone was further than the tolerance from the root
C21_Witness ==
    /\ pc = "kepler_done"
    /\ ring_in.ecc = DblShortDiv(DblOfInt(95), 100)
    /\ circle.high
    /\ ~DblLessEq(KeplerResidual(IF circle.high THEN DblSub(DblTwoPi, circle.starter) ELSE circle.starter),
                  KeplerTolerance)

-----------------------------------------------------------------------------
(* Properties of the normalise, clip and power stage                       *)

\* the stage has run on an image and on its own output, with histmax = 1
\* and lum_power = 1, and the image had a positive maximum
StageTwiceAtOne ==
    /\ pc = "stage_done"
    /\ stardata.histmax = FixOne
    /\ stardata.lum_power = FixOne
    /\ image_max(cloud) > 0

\* C22: with lum_power = 1 and histmax = 1 the stage returns an image of
\* positive maximum divided by that maximum, and returns the same image when
\* it is applied to its own output
C22_StageIdempotent ==
    StageTwiceAtOne =>
        /\ obs[1] = [b \in Bins |-> FDiv(cloud[b], image_max(cloud))]
        /\ obs[2] = obs[1]

\* the stage has run twice on an image whose maximum is not 1 and that has
\* a negative bin
C22_Witness ==
    /\ StageTwiceAtOne
    /\ image_max(cloud) # FixOne
    /\ \E b \in Bins : cloud[b] < 0
    /\ obs[1] # cloud

-----------------------------------------------------------------------------
(* Properties of the flat arrays of dust_plume_sub                         *)

\* particle j of ring i as the vmap returned it, moved by the position of
\* the second star at ring i
ShockMoved(i, j) ==
    <<circle[i + 1][j + 1][1] + ring_in.positions2[i + 1][1],
      circle[i + 1][j + 1][2] + ring_in.positions2[i + 1][2],
      circle[i + 1][j + 1][3] + ring_in.positions2[i + 1][3]>>

\* C23: particle j of ring i sits at flat index i * n_points + j of the
\* positions, of the weights and of the repeated shock origin alike: it is
\* moved by the second star's position of its own ring and keeps its own
\* weight, before the rotation and in the returned cloud
C23_OwnRingOffset ==
    pc \in {"euler", "plume_done"} =>
        \A i \in 0..(n_t * n_orbits - 1) : \A j \in 0..(n_points - 1) :
            /\ ring_in.shock_start[i * n_points + j + 1] = ring_in.positions2[i + 1]
            /\ cloud.weights[i * n_points + j + 1] = circle[i + 1][j + 1][4]
            /\ cloud.particles[i * n_points + j + 1] =
                  IF pc = "euler" THEN ShockMoved(i, j)
                  ELSE project(ShockMoved(i, j), stardata)

\* a cloud has been returned whose rings were shed at different positions of
\* the second star and carry different weights
C23_Witness ==
    /\ pc = "plume_done"
    /\ \E i, k \in DOMAIN circle :
          /\ ring_in.positions2[i] # ring_in.positions2[k]
          /\ circle[i][1][4] # circle[k][1][4]
          /\ project(ShockMoved(i - 1, 0), stardata)
                # project(<<circle[i][1][1] + ring_in.positions2[k][1],
                            circle[i][1][2] + ring_in.positions2[k][2],
                            circle[i][1][3] + ring_in.positions2[k][3]>>, stardata)

-----------------------------------------------------------------------------
(* Properties of spiral_grid and spiral_grid_w_bins                        *)

\* the weights have been masked
SpiralMasked == pc \in {"histogram2d", "histogram2d_w_bins"}

\* C24: spiral_grid and spiral_grid_w_bins ignore only the particles at the
\* origin: a weight is zeroed exactly when x and y are both 0, and a particle
\* with only one of x, y equal to 0 keeps its weight
C24_OnlyOriginIgnored ==
    SpiralMasked =>
        \A j \in DOMAIN obs :
            obs[j] = IF cloud.particles[j][1] = 0 /\ cloud.particles[j][2] = 0
                        THEN 0 ELSE cloud.weights[j]

-----------------------------------------------------------------------------
(* Properties of the fitted grid of smooth_histogram2d                     *)

\* the particles have been binned on the fitted grid
FovBinned == pc = "convolve"

\* the main bin and the three neighbour bins of every particle lie inside
\* the grid
FovAllInside ==
    \A j \in DOMAIN circle : \A q \in 1..4 :
        /\ circle[j][q][1] >= 0 /\ circle[j][q][1] < ImSize
        /\ circle[j][q][2] >= 0 /\ circle[j][q][2] < ImSize

-----------------------------------------------------------------------------
(* Properties of the edge checks of the compositor                         *)

\* an update <<first index, second index, value>> refers to a bin of the grid
HistInGrid(update) ==
    /\ update[1] >= 0 /\ update[1] < ImSize
    /\ update[2] >= 0 /\ update[2] < ImSize

\* the sum of the values of those of a set of updates whose indices are
\* those of bin b itself
RECURSIVE HistInGridSum(_, _)
HistInGridSum(S, b) ==
    IF S = {} THEN 0
    ELSE LET value(p) == IF p[2][1] = b[1] /\ p[2][2] = b[2] THEN p[2][3] ELSE 0
             with(p) == value(p) + HistInGridSum(S \ {p}, b)
         IN with(CHOOSE p \in S : TRUE)

\* C26: on a supplied grid, an update whose index is < 0 or >= im_size on
\* either axis carries the value 0, so nothing reaches a bin through a
\* negative index or from outside the grid: at every point of the four
\* scatter-add statements each bin holds exactly the sum of the updates
\* added so far whose own indices are those of the bin, the in-grid updates
\* of particles with other updates off the grid included.
C26_OffGridAddsZero ==
    HistScattering =>
        /\ \A u \in HistApplied : ~HistInGrid(HistUpdate(u)) => HistUpdate(u)[3] = 0
        /\ \A b \in Bins : H[b] = HistInGridSum(HistUpdates, b)

\* a particle has been binned whose neighbour bin has index -1 and whose main
\* bin received its share, and another whose main bin lies beyond the last
\* bin and whose neighbour bin, the last one, received its share
C26_Witness ==
    /\ pc = "convolve"
    /\ \E j, k \in DOMAIN cloud.particles :
          /\ HistUpdate(<<j, 2>>)[1] = -1
          /\ HistInGrid(HistUpdate(<<j, 1>>))
          /\ HistUpdate(<<j, 1>>)[3] > 0
          /\ H[<<HistUpdate(<<j, 1>>)[1], HistUpdate(<<j, 1>>)[2]>>] > 0
          /\ HistUpdate(<<k, 1>>)[1] >= ImSize
          /\ HistUpdate(<<k, 2>>)[1] = ImSize - 1
          /\ HistUpdate(<<k, 2>>)[3] > 0

-----------------------------------------------------------------------------
(* Properties of the ring ages                                             *)

\* C27: for every phase, negative and above 1 included, and every number of
\* shells, the age of every ring, period * (n_orbits - (shell + fractional
\* time)), is greater than 0 and at most n_orbits periods
C27_AgePositive ==
    pc = "age_done" =>
        /\ circle.age > 0
        /\ circle.age <= ring_in.n_orbits * ring_in.period_s

\* the ages are never negative and never above n_orbits periods
AgeInRange ==
    pc = "age_done" =>
        /\ circle.age >= 0
        /\ circle.age <= ring_in.n_orbits * ring_in.period_s

-----------------------------------------------------------------------------
(* Properties of the ring schedule                                         *)

\* C28: two parameter mappings that differ in phase only give every ring
\* index the same mean anomaly, the same true anomaly and the same
\* separation direction; the schedule runs from the turn-on to the turn-off
\* mean anomaly and is the same in every shell
C28_PhaseLeavesSchedule ==
    pc = "schedule_done" =>
        /\ circle.mean_anomalies = obs.mean_anomalies
        /\ circle.true_anomaly = obs.true_anomaly
        /\ circle.plume_direction = obs.plume_direction
        /\ circle.mean_anomalies[1] = turn_on_mean_anom(stardata) % TwoPi
        /\ circle.mean_anomalies[n_t] = turn_off_mean_anom(stardata) % TwoPi
        /\ \A r \in DOMAIN circle.mean_anomalies :
              circle.mean_anomalies[r] = circle.mean_anomalies[((r - 1) % n_t) + 1]

\* two calls whose phases differ by a fraction of a period have computed
\* their rings: the schedule has distinct anomalies and the widths of every
\* ring differ between the calls
C28_Witness ==
    /\ pc = "schedule_done"
    /\ (stardata.phase - params.phase) % FixOne # 0
    /\ circle.mean_anomalies[1] # circle.mean_anomalies[2]
    /\ \A r \in DOMAIN circle.widths : circle.widths[r] # obs.widths[r]

-----------------------------------------------------------------------------
(* Properties of spin_orbit_mult                                           *)

SpinIsotropic ==
    /\ stardata.windspeed_polar = stardata.windspeed1
    /\ stardata.open_angle_polar = stardata.open_angle

-----------------------------------------------------------------------------
(* Properties of the angular grid of a ring                                *)

\* the dithered angular coordinates of the particles of the ring
RingShiftedTheta ==
    [j \in 1..n_points |-> shifted_theta_of(theta_of(n_points)[j], ring_in.i)]

\* C29: the angular grid of a ring holds both 0 and 2 pi, which the
\* dithering shift (theta + i) mod 2 pi maps to the same angle: the first
\* and the last particle of every ring are the same point with the same
\* weight, and the n_points particles lie at n_points - 1 distinct angles
C29_EndpointsCoincide ==
    RingDone =>
        /\ theta_of(n_points)[1] = 0
        /\ theta_of(n_points)[n_points] = TwoPi
        /\ RingShiftedTheta[1] = RingShiftedTheta[n_points]
        /\ circle[1] = circle[n_points]
        /\ Cardinality({RingShiftedTheta[j] : j \in 1..n_points}) = n_points - 1

\* a ring with a nonzero index has been generated whose first particle
\* carries weight and differs from its second particle
C29_Witness ==
    /\ RingDone
    /\ ring_in.i > 0
    /\ circle[1][4] > 0
    /\ RingPoint(1) # RingPoint(2)
    /\ RingShiftedTheta[1] # 0
====
